---- MODULE Spec2Model ----
(***************************************************************************)
(* Model of the event-ingestion-and-classification engine of the four.meme *)
(* token tracker: the token creation detector (src/src/tokenDetector.js),  *)
(* the trade classifier (src/src/services/tokenProcessor.js), the block    *)
(* handlers that drive them (src/unnamed/part_001, src/main.js,            *)
(* src/unnamed/part_006) and the persistence adapter                       *)
(* (src/src/db/tokenRepository.js, src/src/models/TokenStats.js).          *)
(*                                                                         *)
(* JavaScript values are modelled as follows.  Amounts are decimal strings *)
(* handled through BigInt in the code: they are integers here.  An object  *)
(* field that may be missing is a field plus a has... flag.  A shallow     *)
(* copy ({ ...tokenInfo }) shares the Set and Array objects of the         *)
(* original: every operator that works on a copy returns both the copy     *)
(* (ret) and the caller's object as the shared mutations left it (arg).    *)
(***************************************************************************)
EXTENDS Integers, Sequences, FiniteSets, TLC

VARIABLES seenTokens, db, detections, last, blocks, globalFilter, liveFilters,
          filtersCreated, handlers, delivered, applied, proc, queue, queueLog

vars == <<seenTokens, db, detections, last, blocks, globalFilter, liveFilters,
          filtersCreated, handlers, delivered, applied, proc, queue, queueLog>>

(***************************************************************************)
(* Bounds of the model.                                                    *)
(***************************************************************************)
MaxTxLogs == 2
MaxBlockLogs == 2
MaxBlocks == 2
MaxHandlerBlocks == 3
MaxFilters == 2
MaxHandlers == 2
MaxSetupCalls == 7
MaxTransferBlocks == 3
MaxSaveBlocks == 3
MaxSkipBlocks == 3
MaxCreationLogs == 3
MaxDetectorCalls == 2
MaxGroupLogs == 4
MaxCaseBlocks == 3
MaxTradeChecks == 3
MaxMultiLogs == 4
MaxMultiBlocks == 2
MaxQueueOps == 5

(***************************************************************************)
(* Addresses.  Strings are atoms for the model checker, so                 *)
(* String.prototype.toLowerCase is a table over the address alphabet: the  *)
(* configured platform address and the decoded (checksummed) arguments of  *)
(* a log are mixed case, contract addresses of logs can be either.         *)
(***************************************************************************)
ZERO_ADDRESS == "0x0000"
FOUR_MEME_ADDRESS == "0x5c95FFDB"
FOUR_MEME_HELPER == "0x4873"
WBNB_ADDRESS == "0xbb4c"
GMGN_ROUTER == "0x2b6e"
PANCAKE_ROUTER == "0x10ed"
FOUR_MEME_TRADING == "0x1de4"

ToLower(a) ==
  CASE a = "0x5c95FFDB" -> "0x5c95ffdb"
    [] a = "0xCAFE" -> "0xcafe"
    [] a = "0xBEEF" -> "0xbeef"
    [] a = "0xAA01" -> "0xaa01"
    [] a = "0xDEAD" -> "0xdead"
    [] a = "0xF00D" -> "0xf00d"
    [] a = "0x2B6E" -> "0x2b6e"
    [] OTHER -> a

STANDARD_TOTAL_SUPPLY == 1000000

NoValue == -1

Null == "null"


(***************************************************************************)
(* Sequence helpers.                                                       *)
(***************************************************************************)
\* Array.prototype.find: <<x>> for the first element satisfying Test, <<>>
\* when there is none.
SelectFirst(s, Test(_)) ==
  LET hits == SelectSeq(s, Test)
  IN  IF hits = <<>> THEN <<>> ELSE <<Head(hits)>>

Range(s) == {s[i] : i \in DOMAIN s}

\* The injective sequences of length at most n over S: the logs of one
\* transaction are distinct entries, in any order.
InjSeqs(S, n) ==
  UNION {{s \in [1..k -> S] : \A i, j \in 1..k : i # j => s[i] # s[j]} : k \in 0..n}

(***************************************************************************)
(* Log events as the ledger facade delivers them (spec section 6): the     *)
(* contract address, the decoded Transfer arguments (args.from, args.to,   *)
(* args.value; value = NoValue when the decoder produced none), the        *)
(* transaction hash and the log index.                                     *)
(***************************************************************************)
Log(address, from, to, value, logIndex, tx) ==
  [address |-> address, from |-> from, to |-> to, value |-> value,
   logIndex |-> logIndex, transactionHash |-> tx]

(***************************************************************************)
(* Token metadata probe: getTokenData never throws; it reports what the    *)
(* name/symbol reads returned.  The probe outcome is the environment's:    *)
(* "ok" (multicall answered), "retry" (multicall failed, the individual    *)
(* reads answered), "fail" (no read answered).                             *)
(***************************************************************************)
Probes == {"ok", "retry", "fail"}

getTokenData(tokenAddress, probe) ==
  [address |-> tokenAddress,
   name |-> IF probe = "fail" THEN Null ELSE "name",
   symbol |-> IF probe = "fail" THEN Null ELSE "symbol",
   success |-> probe # "fail",
   errors |-> probe # "ok"]

(***************************************************************************)
(* Token records.  NewTokenInfo is the object literal of detectNewToken;   *)
(* the trade-tracking fields are absent on it (has... = FALSE) until       *)
(* initializeTokenTradeTracking adds them.                                 *)
(***************************************************************************)
NewTokenInfo(tokenAddress, tokenData, creator, mintLog, fmLog, txHash, devHolding) ==
  [tokenAddress |-> tokenAddress,
   name |-> tokenData.name,
   symbol |-> tokenData.symbol,
   totalSupply |-> STANDARD_TOTAL_SUPPLY,
   currentSupply |-> STANDARD_TOTAL_SUPPLY - devHolding.amount,
   creator |-> creator,
   mintRecipient |-> mintLog.to,
   transactionHash |-> txHash,
   value |-> fmLog.value,
   dataErrors |-> tokenData.errors,
   devHolding |-> devHolding,
   hasTrades |-> FALSE,
   trades |-> <<>>,
   buyCount |-> 0,
   sellCount |-> 0,
   uniqueBuyers |-> {},
   uniqueSellers |-> {},
   setsAre |-> "Set",
   totalBuyVolume |-> 0,
   totalSellVolume |-> 0,
   hasDevHoldings |-> FALSE,
   devHoldings |-> 0,
   hasWalletTransfers |-> FALSE,
   walletTransfers |-> <<>>,
   hasCrossPlatformTrades |-> FALSE,
   crossPlatformTrades |-> <<>>]

(***************************************************************************)
(* calculateDevHolding of tokenDetector.js: the amount of the first        *)
(* platform -> creator transfer of the token in the transaction, '0' when  *)
(* there is none or it carries no (or a zero) value.                       *)
(***************************************************************************)
calculateDevHolding_mintAmount(txLogs, tokenAddress, creatorAddress) ==
  LET mint == SelectFirst(txLogs, LAMBDA log :
                ToLower(log.address) = ToLower(tokenAddress) /\ log.from = ZERO_ADDRESS)
  IN  IF mint = <<>> THEN [amount |-> 0, found |-> FALSE]
      ELSE [amount |-> mint[1].value, found |-> TRUE]

calculateDevHolding(txLogs, tokenAddress, creatorAddress) ==
  LET IsDevTransfer(log) ==
        /\ ToLower(log.address) = ToLower(tokenAddress)
        /\ ToLower(log.from) = ToLower(FOUR_MEME_ADDRESS)
        /\ ToLower(log.to) = ToLower(creatorAddress)
      devTransfer == SelectFirst(txLogs, IsDevTransfer)
  IN  IF devTransfer = <<>> \/ devTransfer[1].value = NoValue \/ devTransfer[1].value = 0
      THEN [amount |-> 0, found |-> FALSE]
      ELSE [amount |-> devTransfer[1].value, found |-> TRUE]

\* [...tokenEvents].sort(by logIndex), last element: the event with the
\* highest log index (the later one in the batch among equal indices, the
\* sort being stable).
LastByLogIndex(tokenEvents) ==
  LET n == Len(tokenEvents)
      i == CHOOSE k \in 1..n :
             \A j \in 1..n :
               \/ tokenEvents[j].logIndex < tokenEvents[k].logIndex
               \/ (tokenEvents[j].logIndex = tokenEvents[k].logIndex /\ j <= k)
  IN  tokenEvents[i]

\* seenTokens.has(tokenAddress)
AlreadySeen_never(seen, tokenAddress) == FALSE

AlreadySeen(seen, tokenAddress) == tokenAddress \in DOMAIN seen

NoDetection(seen) == [found |-> FALSE, seenTokens |-> seen]

\* The test of txLogs.find for the mint log of a token: a log of the contract
\* whose source is the zero address.
IsMintOf_anySource(log, tokenAddress) == ToLower(log.address) = tokenAddress

\* The mint test on the address of the log as delivered.
IsMintOf_caseSensitive(log, tokenAddress) ==  log.address = tokenAddress /\ log.from = ZERO_ADDRESS

IsMintOf(log, tokenAddress) ==
  ToLower(log.address) = tokenAddress /\ log.from = ZERO_ADDRESS

(***************************************************************************)
(* detectNewToken: among the logs sent to the platform, the first whose    *)
(* contract is not yet a key of seenTokens and has a mint log in the       *)
(* transaction yields a record, which is stored in seenTokens and          *)
(* returned.                                                               *)
(***************************************************************************)
detectNewToken(txLogs, txHash, seen, probe) ==
  LET toFourMeme == SelectSeq(txLogs, LAMBDA log :
                      ToLower(log.to) = ToLower(FOUR_MEME_ADDRESS))
      HasMint(tokenAddress) ==
        \E i \in DOMAIN txLogs : IsMintOf(txLogs[i], tokenAddress)
      Candidate(fmLog) ==
        /\ ~AlreadySeen(seen, ToLower(fmLog.address))
        /\ HasMint(ToLower(fmLog.address))
      first == SelectFirst(toFourMeme, Candidate)
  IN  IF first = <<>> THEN NoDetection(seen)
      ELSE
        LET fmLog == first[1]
            tokenAddress == ToLower(fmLog.address)
            mintLog == SelectFirst(txLogs, LAMBDA log : IsMintOf(log, tokenAddress))[1]
            tokenEvents == SelectSeq(txLogs, LAMBDA log : ToLower(log.address) = tokenAddress)
            creatorAddress == LastByLogIndex(tokenEvents).to
            tokenData == getTokenData(tokenAddress, probe)
            devHolding == calculateDevHolding(txLogs, tokenAddress, creatorAddress)
            tokenInfo == NewTokenInfo(tokenAddress, tokenData, creatorAddress,
                                      mintLog, fmLog, txHash, devHolding)
        IN  [found |-> TRUE, tokenInfo |-> tokenInfo,
             seenTokens |-> (tokenAddress :> tokenInfo) @@ seen]


(***************************************************************************)
(* The trade classifier (tokenProcessor.js).                               *)
(***************************************************************************)
FOUR_MEME_RELATED_ADDRESSES == {ToLower(FOUR_MEME_ADDRESS), FOUR_MEME_HELPER}

KNOWN_DEX_CONTRACTS == {GMGN_ROUTER, PANCAKE_ROUTER, FOUR_MEME_TRADING}

\* PLATFORM_CONTRACTS lookup: the platform name of an address, Null if none.
PlatformOf(toAddress) ==
  IF toAddress \in {ToLower(FOUR_MEME_ADDRESS), FOUR_MEME_TRADING} THEN "four.meme"
  ELSE IF toAddress = GMGN_ROUTER THEN "gmgn.ai"
  ELSE Null

\* A Set argument that may be missing (undefined) at the call.
NoSet == [defined |-> FALSE, elems |-> {}]
MkSet(S) == [defined |-> TRUE, elems |-> S]

\* Outcomes of client.getTransactionReceipt for a transaction: its logs hold
\* no WBNB transfer, they hold one, or the call fails.
Receipts == {"plain", "wbnb", "error"}

initializeTokenTradeTracking(tokenInfo) ==
  IF ~tokenInfo.hasTrades
  THEN [tokenInfo EXCEPT
          !.hasTrades = TRUE,
          !.trades = <<>>,
          !.buyCount = 1,
          !.sellCount = 0,
          !.uniqueBuyers = {ToLower(tokenInfo.creator)},
          !.uniqueSellers = {},
          !.setsAre = "Set",
          !.totalBuyVolume = tokenInfo.totalSupply,
          !.totalSellVolume = 0,
          !.hasDevHoldings = TRUE,
          !.devHoldings = tokenInfo.totalSupply]
  ELSE tokenInfo

TradeRecord(type, who, tokenAmount, txHash, isCreator) ==
  [type |-> type, amount |-> tokenAmount, who |-> who, txHash |-> txHash,
   isCreator |-> isCreator]

\* updatedTokens.add(updatedTokenInfo.tokenAddress), the last statement of
\* processBuyTransaction and processSellTransaction: a TypeError when the
\* caller passed no updatedTokens.
MarkUpdated(updatedTokens, tokenAddress) ==
  IF updatedTokens.defined
  THEN [threw |-> FALSE, updatedTokens |-> MkSet(updatedTokens.elems \cup {tokenAddress})]
  ELSE [threw |-> TRUE, updatedTokens |-> updatedTokens]

(***************************************************************************)
(* processBuyTransaction works on updatedTokenInfo = { ...tokenInfo }.     *)
(* ret is that copy, which is what the function returns; arg is the        *)
(* caller's tokenInfo afterwards: the scalar fields are written on the     *)
(* copy only, uniqueBuyers.add and trades.push go to the Set and the Array *)
(* both objects share.  uniqueBuyers.add throws when uniqueBuyers is not a *)
(* Set.                                                                    *)
(***************************************************************************)
processBuyTransaction(tokenInfo, toAddress, tokenAmount, txHash, updatedTokens) ==
  IF tokenInfo.setsAre # "Set"
  THEN [threw |-> TRUE, ret |-> tokenInfo, arg |-> tokenInfo, updatedTokens |-> updatedTokens]
  ELSE
    LET isCreator == toAddress = ToLower(tokenInfo.creator)
        trade == TradeRecord("buy", toAddress, tokenAmount, txHash, isCreator)
        shared == [tokenInfo EXCEPT
                     !.uniqueBuyers = @ \cup {toAddress},
                     !.trades = IF tokenInfo.hasTrades THEN Append(@, trade) ELSE @]
        copy == [shared EXCEPT
                   !.buyCount = @ + 1,
                   !.totalBuyVolume = @ + tokenAmount,
                   !.hasDevHoldings = @ \/ isCreator,
                   !.devHoldings = IF isCreator THEN @ + tokenAmount ELSE @,
                   !.hasTrades = TRUE,
                   !.trades = IF tokenInfo.hasTrades THEN @ ELSE <<trade>>]
        mark == MarkUpdated(updatedTokens, copy.tokenAddress)
    IN  [threw |-> mark.threw, ret |-> copy, arg |-> shared,
         updatedTokens |-> mark.updatedTokens]

processSellTransaction(tokenInfo, fromAddress, tokenAmount, txHash, updatedTokens) ==
  IF tokenInfo.setsAre # "Set"
  THEN [threw |-> TRUE, ret |-> tokenInfo, arg |-> tokenInfo, updatedTokens |-> updatedTokens]
  ELSE
    LET isCreator == fromAddress = ToLower(tokenInfo.creator)
        trade == TradeRecord("sell", fromAddress, tokenAmount, txHash, isCreator)
        shared == [tokenInfo EXCEPT
                     !.uniqueSellers = @ \cup {fromAddress},
                     !.trades = IF tokenInfo.hasTrades THEN Append(@, trade) ELSE @]
        copy == [shared EXCEPT
                   !.sellCount = @ + 1,
                   !.totalSellVolume = @ + tokenAmount,
                   !.hasDevHoldings = @ \/ isCreator,
                   !.devHoldings = IF isCreator THEN @ - tokenAmount ELSE @,
                   !.hasTrades = TRUE,
                   !.trades = IF tokenInfo.hasTrades THEN @ ELSE <<trade>>]
        mark == MarkUpdated(updatedTokens, copy.tokenAddress)
    IN  [threw |-> mark.threw, ret |-> copy, arg |-> shared,
         updatedTokens |-> mark.updatedTokens]

(***************************************************************************)
(* processCrossPlatformTrade: a record is appended only when the           *)
(* destination belongs to a platform other than four.meme and the source   *)
(* has at least one buy TradeRecord.  updated = FALSE is the null return.  *)
(***************************************************************************)
processCrossPlatformTrade(tokenInfo, fromAddress, toAddress, tokenAmount, txHash) ==
  LET platform == PlatformOf(toAddress)
      buyerTrades == SelectSeq(tokenInfo.trades, LAMBDA t :
                       t.type = "buy" /\ ToLower(t.who) = ToLower(fromAddress))
      entry == [from |-> fromAddress, to |-> toAddress, platform |-> platform,
                amount |-> tokenAmount, txHash |-> txHash]
  IN  IF platform # Null /\ platform # "four.meme" /\ buyerTrades # <<>>
      THEN [updated |-> TRUE,
            ret |-> [tokenInfo EXCEPT !.hasCrossPlatformTrades = TRUE,
                                      !.crossPlatformTrades = Append(@, entry)],
            arg |-> IF tokenInfo.hasCrossPlatformTrades
                    THEN [tokenInfo EXCEPT !.crossPlatformTrades = Append(@, entry)]
                    ELSE tokenInfo]
      ELSE [updated |-> FALSE, ret |-> tokenInfo, arg |-> tokenInfo]

\* processWalletTransfer lines 443-459, result being what
\* processCrossPlatformTrade returned.
TransferToDex(tokenInfo, touched, result) ==
  [threw |-> FALSE, updated |-> touched \/ result.updated,
   tokenInfo |-> result.ret,
   arg |-> IF tokenInfo.hasCrossPlatformTrades /\ result.updated
           THEN [tokenInfo EXCEPT !.crossPlatformTrades = result.ret.crossPlatformTrades]
           ELSE tokenInfo]

(***************************************************************************)
(* processWalletTransfer.  BigInt(updatedTokenInfo.devHoldings) throws     *)
(* when the record has no devHoldings; the receipt fetch is awaited before *)
(* anything is appended and rejects when the RPC call fails.               *)
(***************************************************************************)
processWalletTransfer_noCredit(tokenInfo, fromAddress, toAddress, tokenAmount, txHash, receipt) ==
  LET unchanged == [threw |-> FALSE, updated |-> FALSE, tokenInfo |-> tokenInfo,
                    arg |-> tokenInfo]
      thrown == [threw |-> TRUE, updated |-> FALSE, tokenInfo |-> tokenInfo,
                 arg |-> tokenInfo]
      creatorSends == fromAddress = ToLower(tokenInfo.creator)
      creatorReceives == ~creatorSends /\ toAddress = ToLower(tokenInfo.creator)
      touched == creatorSends \/ creatorReceives
      copy1 == [tokenInfo EXCEPT
                  !.devHoldings = IF creatorSends THEN @ - tokenAmount
                                  ELSE IF creatorReceives THEN @
                                  ELSE @]
      isDexContract == toAddress \in KNOWN_DEX_CONTRACTS
      isWBNBTransferInTx == receipt = "wbnb"
      transfer == [from |-> fromAddress, to |-> toAddress, amount |-> tokenAmount,
                   txHash |-> txHash]
  IN  IF fromAddress \in FOUR_MEME_RELATED_ADDRESSES \/ toAddress \in FOUR_MEME_RELATED_ADDRESSES
      THEN unchanged
      ELSE IF touched /\ ~tokenInfo.hasDevHoldings THEN thrown
      ELSE IF receipt = "error" THEN thrown
      ELSE IF isDexContract
      THEN TransferToDex(tokenInfo, touched,
                         processCrossPlatformTrade(copy1, fromAddress, toAddress,
                                                   tokenAmount, txHash))
      ELSE IF ~isWBNBTransferInTx
      THEN [threw |-> FALSE, updated |-> TRUE,
            tokenInfo |-> [copy1 EXCEPT !.hasWalletTransfers = TRUE,
                                        !.walletTransfers = Append(@, transfer)],
            arg |-> IF tokenInfo.hasWalletTransfers
                    THEN [tokenInfo EXCEPT !.walletTransfers = Append(@, transfer)]
                    ELSE tokenInfo]
      ELSE [threw |-> FALSE, updated |-> touched, tokenInfo |-> copy1, arg |-> tokenInfo]

processWalletTransfer(tokenInfo, fromAddress, toAddress, tokenAmount, txHash, receipt) ==
  LET unchanged == [threw |-> FALSE, updated |-> FALSE, tokenInfo |-> tokenInfo,
                    arg |-> tokenInfo]
      thrown == [threw |-> TRUE, updated |-> FALSE, tokenInfo |-> tokenInfo,
                 arg |-> tokenInfo]
      creatorSends == fromAddress = ToLower(tokenInfo.creator)
      creatorReceives == ~creatorSends /\ toAddress = ToLower(tokenInfo.creator)
      touched == creatorSends \/ creatorReceives
      copy1 == [tokenInfo EXCEPT
                  !.devHoldings = IF creatorSends THEN @ - tokenAmount
                                  ELSE IF creatorReceives THEN @ + tokenAmount
                                  ELSE @]
      isDexContract == toAddress \in KNOWN_DEX_CONTRACTS
      isWBNBTransferInTx == receipt = "wbnb"
      transfer == [from |-> fromAddress, to |-> toAddress, amount |-> tokenAmount,
                   txHash |-> txHash]
  IN  IF fromAddress \in FOUR_MEME_RELATED_ADDRESSES \/ toAddress \in FOUR_MEME_RELATED_ADDRESSES
      THEN unchanged
      ELSE IF touched /\ ~tokenInfo.hasDevHoldings THEN thrown
      ELSE IF receipt = "error" THEN thrown
      ELSE IF isDexContract
      THEN TransferToDex(tokenInfo, touched,
                         processCrossPlatformTrade(copy1, fromAddress, toAddress,
                                                   tokenAmount, txHash))
      ELSE IF ~isWBNBTransferInTx
      THEN [threw |-> FALSE, updated |-> TRUE,
            tokenInfo |-> [copy1 EXCEPT !.hasWalletTransfers = TRUE,
                                        !.walletTransfers = Append(@, transfer)],
            arg |-> IF tokenInfo.hasWalletTransfers
                    THEN [tokenInfo EXCEPT !.walletTransfers = Append(@, transfer)]
                    ELSE tokenInfo]
      ELSE [threw |-> FALSE, updated |-> touched, tokenInfo |-> copy1, arg |-> tokenInfo]

IsRelatedSkip_never(fromAddress, toAddress) == FALSE

\* Skip if either address is a Four.meme related address (except the main
\* contract for actual trades).
IsRelatedSkip(fromAddress, toAddress) ==
  \/ (fromAddress # ToLower(FOUR_MEME_ADDRESS) /\ fromAddress \in FOUR_MEME_RELATED_ADDRESSES)
  \/ (toAddress # ToLower(FOUR_MEME_ADDRESS) /\ toAddress \in FOUR_MEME_RELATED_ADDRESSES)

\* !log.args?.from || !log.args?.to || !log.args?.value: a missing value
\* and the BigInt 0n are both falsy.
MissingData(log) == log.value = NoValue \/ log.value = 0

(***************************************************************************)
(* The persistence adapter.  saveToken copies the record, turns the two    *)
(* Sets into Arrays and upserts the copy under the lowercase address.  The *)
(* document kept is the copy cast to TokenStatsSchema: paths the schema    *)
(* does not declare (devHoldings, walletTransfers, crossPlatformTrades,    *)
(* isCreator of a trade) are not stored, and the declared array and        *)
(* defaulted paths (trades, buyCount, ...) are always present on it.       *)
(***************************************************************************)
TokenStatsSchema(tokenData) ==
  [tokenData EXCEPT
     !.hasTrades = TRUE,
     !.trades = [i \in DOMAIN @ |-> [@[i] EXCEPT !.isCreator = FALSE]],
     !.hasDevHoldings = FALSE,
     !.devHoldings = 0,
     !.hasWalletTransfers = FALSE,
     !.walletTransfers = <<>>,
     !.hasCrossPlatformTrades = FALSE,
     !.crossPlatformTrades = <<>>]

\* dbDown: the upsert is rejected (PersistenceError), saveToken rethrows.
saveToken(tokenAddress, tokenInfo, dbv, dbDown) ==
  LET tokenData == [tokenInfo EXCEPT !.setsAre = "Array"]
  IN  IF dbDown THEN [threw |-> TRUE, db |-> dbv]
      ELSE [threw |-> FALSE,
            db |-> (ToLower(tokenAddress) :> TokenStatsSchema(tokenData)) @@ dbv]

RECURSIVE SaveAll(_, _, _, _)
\* saveToken for each address of a sequence, each failure caught and logged.
SaveAll(addresses, seen, dbv, dbDown) ==
  IF addresses = <<>> THEN dbv
  ELSE SaveAll(Tail(addresses), seen,
               IF Head(addresses) \in DOMAIN seen
               THEN saveToken(Head(addresses), seen[Head(addresses)], dbv, dbDown).db
               ELSE dbv,
               dbDown)

RECURSIVE SetToSeq(_)
\* The elements of a set in some order (the saves of a block are
\* independent upserts of distinct keys).
SetToSeq(S) ==
  IF S = {} THEN <<>>
  ELSE LET x == CHOOSE y \in S : TRUE IN <<x>> \o SetToSeq(S \ {x})

(***************************************************************************)
(* groupLogsByTransaction: a Map from transaction hash to the logs of that *)
(* transaction, keys in order of first appearance, logs in input order.    *)
(***************************************************************************)
\* logsByTx.has(txHash)
HasTx(logsByTx, txHash) == \E i \in DOMAIN logsByTx : logsByTx[i].txHash = txHash

\* One pass of the loop body for a log, variant that puts the log in front
\* of the logs already held for its transaction.
PushLog_unshift(logsByTx, log) ==
  IF HasTx(logsByTx, log.transactionHash)
  THEN [i \in DOMAIN logsByTx |->
          IF logsByTx[i].txHash = log.transactionHash
          THEN [logsByTx[i] EXCEPT !.txLogs = <<log>> \o @]
          ELSE logsByTx[i]]
  ELSE Append(logsByTx, [txHash |-> log.transactionHash, txLogs |-> <<log>>])

\* One pass of the loop body: set(txHash, []) when the key is new, then
\* get(txHash).push(log).
PushLog(logsByTx, log) ==
  IF HasTx(logsByTx, log.transactionHash)
  THEN [i \in DOMAIN logsByTx |->
          IF logsByTx[i].txHash = log.transactionHash
          THEN [logsByTx[i] EXCEPT !.txLogs = Append(@, log)]
          ELSE logsByTx[i]]
  ELSE Append(logsByTx, [txHash |-> log.transactionHash, txLogs |-> <<log>>])

RECURSIVE GroupLoop(_, _)
GroupLoop(logs, logsByTx) ==
  IF logs = <<>> THEN logsByTx
  ELSE GroupLoop(Tail(logs), PushLog(logsByTx, Head(logs)))

groupLogsByTransaction(logs) == GroupLoop(logs, <<>>)

\* topics[0] is Transfer, topics[1] the zero address, topics[2] the platform.
IsMintToFourMeme(log) ==
  log.from = ZERO_ADDRESS /\ ToLower(log.to) = ToLower(FOUR_MEME_ADDRESS)

(***************************************************************************)
(* processTradesInTransaction (the classifier loop of processTokenLogs).   *)
(* The value returned by processBuyTransaction, processSellTransaction and *)
(* processWalletTransfer is not used: what seenTokens.set stores is the    *)
(* tokenInfo object passed to them, as the mutations they share left it.   *)
(***************************************************************************)
\* The three `continue` tests of the loop body (lines 187, 190, 196-199)
\* and the zero-amount one (line 206).
SkipsLog(log, seen) ==
  \/ ToLower(log.address) \notin DOMAIN seen
  \/ MissingData(log)
  \/ IsRelatedSkip(ToLower(log.from), ToLower(log.to))
  \/ log.value = 0

WalletAsTrade(w, updatedTokens) ==
  [threw |-> w.threw, ret |-> w.tokenInfo, arg |-> w.arg, updatedTokens |-> updatedTokens]

\* Lines 215-247: the branch on the two sides of the transfer.
ClassifyLog(tokenInfo, fromAddress, toAddress, tokenAmount, txHash, updatedTokens, receipt) ==
  IF fromAddress = ToLower(FOUR_MEME_ADDRESS)
  THEN processBuyTransaction(tokenInfo, toAddress, tokenAmount, txHash, updatedTokens)
  ELSE IF toAddress = ToLower(FOUR_MEME_ADDRESS)
  THEN processSellTransaction(tokenInfo, fromAddress, tokenAmount, txHash, updatedTokens)
  ELSE WalletAsTrade(processWalletTransfer(tokenInfo, fromAddress, toAddress, tokenAmount,
                                           txHash, receipt),
                     updatedTokens)

RECURSIVE processTradesInTransaction(_, _, _, _, _)
\* Line 250 after the branch r of a log.  On a throw the object already
\* stored (tracking initialised earlier) keeps the shared mutations made
\* before the throw.
StoreClassified(txHash, rest, seen, tokenAddress, r, receipt) ==
  IF r.threw
  THEN [threw |-> TRUE,
        seen |-> IF seen[tokenAddress].hasTrades
                 THEN [seen EXCEPT ![tokenAddress] = r.arg] ELSE seen,
        updatedTokens |-> r.updatedTokens]
  ELSE processTradesInTransaction(txHash, rest, [seen EXCEPT ![tokenAddress] = r.arg],
                                  r.updatedTokens, receipt)

processTradesInTransaction(txHash, txLogs, seen, updatedTokens, receipt) ==
  IF txLogs = <<>>
  THEN [threw |-> FALSE, seen |-> seen, updatedTokens |-> updatedTokens]
  ELSE IF SkipsLog(Head(txLogs), seen)
  THEN processTradesInTransaction(txHash, Tail(txLogs), seen, updatedTokens, receipt)
  ELSE StoreClassified(txHash, Tail(txLogs), seen, ToLower(Head(txLogs).address),
         ClassifyLog(initializeTokenTradeTracking(seen[ToLower(Head(txLogs).address)]),
                     ToLower(Head(txLogs).from), ToLower(Head(txLogs).to),
                     Head(txLogs).value, txHash, updatedTokens, receipt),
         receipt)

(***************************************************************************)
(* detectTokensInTransaction: detectNewToken is called once for every      *)
(* mint-to-platform log of the transaction.                                *)
(***************************************************************************)
RECURSIVE detectTokensInTransaction(_, _, _, _, _)
\* Lines 158-165 after one detectNewToken call r.
CollectDetected(r, more) ==
  IF r.found
  THEN [seen |-> more.seen, detectedTokens |-> <<r.tokenInfo>> \o more.detectedTokens]
  ELSE more

DetectAndGoOn(txHash, txLogs, rest, r, probe) ==
  CollectDetected(r, detectTokensInTransaction(txHash, txLogs, rest, r.seenTokens, probe))

detectTokensInTransaction(txHash, txLogs, rest, seen, probe) ==
  IF rest = <<>> THEN [seen |-> seen, detectedTokens |-> <<>>]
  ELSE IF IsMintToFourMeme(Head(rest))
  THEN DetectAndGoOn(txHash, txLogs, Tail(rest),
                     detectNewToken(txLogs, txHash, seen, probe), probe)
  ELSE detectTokensInTransaction(txHash, txLogs, Tail(rest), seen, probe)

RECURSIVE SaveNewTokens(_, _, _, _)
\* processTokenLogs lines 76-87: a new token counts as updated only when
\* its save succeeded.
SavedNewToken(t, r, rest, updatedTokens, dbDown) ==
  SaveNewTokens(rest, r.db,
                IF r.threw THEN updatedTokens ELSE updatedTokens \cup {t.tokenAddress},
                dbDown)

SaveNewTokens(tokenInfoList, dbv, updatedTokens, dbDown) ==
  IF tokenInfoList = <<>> THEN [db |-> dbv, updatedTokens |-> updatedTokens]
  ELSE SavedNewToken(Head(tokenInfoList),
                     saveToken(Head(tokenInfoList).tokenAddress, Head(tokenInfoList), dbv,
                               dbDown),
                     Tail(tokenInfoList), updatedTokens, dbDown)

(***************************************************************************)
(* processTokenLogs: per transaction group, detection, the save of the new *)
(* tokens, classification; after the last group the save of every updated  *)
(* token.  Nothing catches an error of processTradesInTransaction: it      *)
(* leaves processTokenLogs before saveUpdatedTokens.                       *)
(***************************************************************************)
RECURSIVE processTokenLogsLoop(_, _, _, _, _, _, _)
CountGroup(more) == [more EXCEPT !.done = @ + 1]

\* After processTradesInTransaction (result t) of the first group.
GroupTraded(groups, dbv, t, probe, receipt, dbDown) ==
  IF t.threw
  THEN [threw |-> TRUE, seen |-> t.seen, updatedTokens |-> t.updatedTokens.elems,
        done |-> 0, db |-> dbv]
  ELSE CountGroup(processTokenLogsLoop(Tail(groups), t.seen, dbv, t.updatedTokens.elems,
                                       probe, receipt, dbDown))

\* After the save of the new tokens (result n) of the first group.
GroupSaved(groups, seen, n, probe, receipt, dbDown) ==
  GroupTraded(groups, n.db,
              processTradesInTransaction(Head(groups).txHash, Head(groups).txLogs, seen,
                                         MkSet(n.updatedTokens), receipt),
              probe, receipt, dbDown)

\* After detectTokensInTransaction (result d) of the first group.
GroupDetected(groups, d, dbv, updatedTokens, probe, receipt, dbDown) ==
  GroupSaved(groups, d.seen, SaveNewTokens(d.detectedTokens, dbv, updatedTokens, dbDown),
             probe, receipt, dbDown)

processTokenLogsLoop(groups, seen, dbv, updatedTokens, probe, receipt, dbDown) ==
  IF groups = <<>>
  THEN [threw |-> FALSE, seen |-> seen, updatedTokens |-> updatedTokens, done |-> 0,
        db |-> SaveAll(SetToSeq(updatedTokens), seen, dbv, dbDown)]
  ELSE GroupDetected(groups,
                     detectTokensInTransaction(Head(groups).txHash, Head(groups).txLogs,
                                               Head(groups).txLogs, seen, probe),
                     dbv, updatedTokens, probe, receipt, dbDown)

processTokenLogs(logs, seen, dbv, probe, receipt, dbDown) ==
  processTokenLogsLoop(groupLogsByTransaction(logs), seen, dbv, {}, probe, receipt, dbDown)

(***************************************************************************)
(* processTokenTrades, the classifier of one log the block handler calls.  *)
(* It passes no updatedTokens to processBuyTransaction and                 *)
(* processSellTransaction.  found = FALSE is the null return; stored is    *)
(* the caller's tokenInfo object afterwards (initializeTokenTradeTracking  *)
(* returns that same object once trades exists, so the shared mutations    *)
(* reach it).                                                              *)
(***************************************************************************)
TradeAsTransfer(t) ==
  [threw |-> t.threw, updated |-> TRUE, tokenInfo |-> t.ret, arg |-> t.arg]

\* Lines 662-698.
ClassifyAlone(updatedTokenInfo, fromAddress, toAddress, tokenAmount, txHash, receipt) ==
  IF fromAddress = ToLower(FOUR_MEME_ADDRESS)
  THEN TradeAsTransfer(processBuyTransaction(updatedTokenInfo, toAddress, tokenAmount,
                                             txHash, NoSet))
  ELSE IF toAddress = ToLower(FOUR_MEME_ADDRESS)
  THEN TradeAsTransfer(processSellTransaction(updatedTokenInfo, fromAddress, tokenAmount,
                                              txHash, NoSet))
  ELSE processWalletTransfer(updatedTokenInfo, fromAddress, toAddress, tokenAmount,
                             txHash, receipt)

TradeOutcome(tokenInfo, r) ==
  [threw |-> r.threw, found |-> ~r.threw /\ r.updated, tokenInfo |-> r.tokenInfo,
   stored |-> IF tokenInfo.hasTrades THEN r.arg ELSE tokenInfo]

processTokenTrades(log, txHash, tokenInfo, receipt) ==
  IF \/ MissingData(log)
     \/ IsRelatedSkip(ToLower(log.from), ToLower(log.to))
     \/ log.value = 0
  THEN [threw |-> FALSE, found |-> FALSE, tokenInfo |-> tokenInfo, stored |-> tokenInfo]
  ELSE TradeOutcome(tokenInfo,
         ClassifyAlone(initializeTokenTradeTracking(tokenInfo), ToLower(log.from),
                       ToLower(log.to), log.value, txHash, receipt))

(***************************************************************************)
(* The block handler: checkForNewToken, checkForTokenTrades,               *)
(* saveUpdatedTokens and processBlock.                                     *)
(***************************************************************************)
RECURSIVE checkForNewToken(_, _, _, _, _, _, _)
\* Lines 272-291 after one detectNewToken call r.
NewTokenChecked(rest, txLogs, txHash, r, dbv, probe, dbDown) ==
  IF r.found
  THEN [found |-> TRUE, tokenAddress |-> r.tokenInfo.tokenAddress,
        seen |-> (ToLower(r.tokenInfo.tokenAddress) :> r.tokenInfo) @@ r.seenTokens,
        db |-> saveToken(r.tokenInfo.tokenAddress, r.tokenInfo, dbv, dbDown).db]
  ELSE checkForNewToken(rest, txLogs, txHash, r.seenTokens, dbv, probe, dbDown)

checkForNewToken(rest, txLogs, txHash, seen, dbv, probe, dbDown) ==
  IF rest = <<>> THEN [found |-> FALSE, tokenAddress |-> Null, seen |-> seen, db |-> dbv]
  ELSE IF IsMintToFourMeme(Head(rest))
  THEN NewTokenChecked(Tail(rest), txLogs, txHash,
                       detectNewToken(txLogs, txHash, seen, probe), dbv, probe, dbDown)
  ELSE checkForNewToken(Tail(rest), txLogs, txHash, seen, dbv, probe, dbDown)

RECURSIVE TradesLoop(_, _, _, _, _)
\* Lines 337-341 after processTokenTrades (result r) of a relevant log.
TradeStored(rest, txHash, seen, tokenAddress, r, updatedTokenAddresses, receipt) ==
  IF r.threw
  THEN [threw |-> TRUE, seen |-> [seen EXCEPT ![tokenAddress] = r.stored],
        updatedTokenAddresses |-> updatedTokenAddresses]
  ELSE IF r.found
  THEN TradesLoop(rest, txHash, [seen EXCEPT ![tokenAddress] = r.tokenInfo],
                  updatedTokenAddresses \cup {tokenAddress}, receipt)
  ELSE TradesLoop(rest, txHash, [seen EXCEPT ![tokenAddress] = r.stored],
                  updatedTokenAddresses, receipt)

\* Lines 320-353.
TradesLoop(relevantLogs, txHash, seen, updatedTokenAddresses, receipt) ==
  IF relevantLogs = <<>>
  THEN [threw |-> FALSE, seen |-> seen, updatedTokenAddresses |-> updatedTokenAddresses]
  ELSE TradeStored(Tail(relevantLogs), txHash, seen, ToLower(Head(relevantLogs).address),
                   processTokenTrades(Head(relevantLogs), txHash,
                                      seen[ToLower(Head(relevantLogs).address)], receipt),
                   updatedTokenAddresses, receipt)

checkForTokenTrades(txLogs, txHash, seen, receipt) ==
  TradesLoop(SelectSeq(txLogs, LAMBDA log : ToLower(log.address) \in DOMAIN seen),
             txHash, seen, {}, receipt)

RECURSIVE BlockLoop(_, _, _, _, _, _, _)
\* Lines 193-198 after checkForTokenTrades (result t) of the first group.
BlockTraded(groups, dbv, t, updatedTokens, probe, receipt, dbDown) ==
  IF t.threw
  THEN [threw |-> TRUE, seen |-> t.seen, db |-> dbv, updatedTokens |-> updatedTokens,
        done |-> 0]
  ELSE CountGroup(BlockLoop(Tail(groups), t.seen, dbv,
                            updatedTokens \cup t.updatedTokenAddresses,
                            probe, receipt, dbDown))

\* Lines 187-193 after checkForNewToken (result c) of the first group.
BlockNewChecked(groups, c, updatedTokens, probe, receipt, dbDown) ==
  BlockTraded(groups, c.db,
              checkForTokenTrades(Head(groups).txLogs, Head(groups).txHash, c.seen, receipt),
              IF c.found THEN updatedTokens \cup {c.tokenAddress} ELSE updatedTokens,
              probe, receipt, dbDown)

\* Lines 183-204: the loop over the transaction groups, then
\* saveUpdatedTokens.
BlockLoop(groups, seen, dbv, updatedTokens, probe, receipt, dbDown) ==
  IF groups = <<>>
  THEN [threw |-> FALSE, seen |-> seen, updatedTokens |-> updatedTokens, done |-> 0,
        db |-> SaveAll(SetToSeq(updatedTokens), seen, dbv, dbDown)]
  ELSE BlockNewChecked(groups,
                       checkForNewToken(Head(groups).txLogs, Head(groups).txLogs,
                                        Head(groups).txHash, seen, dbv, probe, dbDown),
                       updatedTokens, probe, receipt, dbDown)

(***************************************************************************)
(* processBlock.  Its body is one try block whose catch logs the error and *)
(* returns: a failed getFilterChanges (the node does not know the filter)  *)
(* and an error of the classification both end the handler there.  error   *)
(* is what the catch saw.  canCreate: the node accepts createEventFilter.  *)
(***************************************************************************)
\* No filter handle (globalFilter = null).
NoFilter == 0

\* The handler ends: x is where the loop over the groups got to.
BlockResult(error, x, filter, live, created) ==
  [error |-> IF error = "none" /\ x.threw THEN "classification" ELSE error,
   seen |-> x.seen, db |-> x.db, updatedTokens |-> x.updatedTokens, done |-> x.done,
   globalFilter |-> filter, liveFilters |-> live, filtersCreated |-> created]

NotPolled(seen, dbv) ==
  [threw |-> FALSE, seen |-> seen, db |-> dbv, updatedTokens |-> {}, done |-> 0]

processBlock(logs, seen, dbv, filter, live, created, probe, receipt, dbDown, canCreate) ==
  IF filter = NoFilter /\ ~canCreate
  THEN BlockResult("createEventFilter", NotPolled(seen, dbv), filter, live, created)
  ELSE IF filter = NoFilter
  THEN BlockResult("none",
                   BlockLoop(groupLogsByTransaction(logs), seen, dbv, {}, probe, receipt,
                             dbDown),
                   created + 1, live \cup {created + 1}, created + 1)
  ELSE IF filter \notin live
  THEN BlockResult("getFilterChanges", NotPolled(seen, dbv), filter, live, created)
  ELSE BlockResult("none",
                   BlockLoop(groupLogsByTransaction(logs), seen, dbv, {}, probe, receipt,
                             dbDown),
                   filter, live, created)

(***************************************************************************)
(* The analyzer (tokenAnalyzer.js).  It reads the two sides of a transfer  *)
(* from the topics and the amount from log.data, the ABI encoding of the   *)
(* uint256 value: a fixed-width hex word.  Hex strings are sequences of    *)
(* hex digits, most significant first; the word is WordDigits digits wide  *)
(* here (64 on the chain).                                                 *)
(***************************************************************************)
WordDigits == 6

RECURSIVE ToHexDigits(_, _)
ToHexDigits(n, width) ==
  IF width = 0 THEN <<>> ELSE Append(ToHexDigits(n \div 16, width - 1), n % 16)

\* log.data of a Transfer log of the given value.
EncodeData(value) == ToHexDigits(value, WordDigits)

RECURSIVE HexToBigInt(_)
\* BigInt('0x...')
HexToBigInt(digits) ==
  IF digits = <<>> THEN 0
  ELSE 16 * HexToBigInt(SubSeq(digits, 1, Len(digits) - 1)) + digits[Len(digits)]

\* The string literal '0x0'.
HEX_0x0 == <<0>>

\* const tokenAmount = log.data ? log.data : '0x0'
TokenAmountOf(log) ==
  IF log.value = NoValue THEN HEX_0x0 ELSE EncodeData(log.value)

INFRASTRUCTURE_CONTRACTS == {ToLower(FOUR_MEME_ADDRESS), FOUR_MEME_HELPER}

\* detectTrades lines 297-369: the kind of trade a log is pushed as, Null
\* when the loop moves on without pushing.
TradeTypeOf(log, seen) ==
  IF ToLower(log.address) \notin DOMAIN seen THEN Null
  ELSE IF TokenAmountOf(log) = HEX_0x0 THEN Null
  ELSE IF IsRelatedSkip(ToLower(log.from), ToLower(log.to)) THEN Null
  ELSE IF ToLower(log.from) = ToLower(FOUR_MEME_ADDRESS) THEN "buy"
  ELSE IF ToLower(log.to) = ToLower(FOUR_MEME_ADDRESS) THEN "sell"
  ELSE IF /\ ToLower(log.from) \notin FOUR_MEME_RELATED_ADDRESSES
          /\ ToLower(log.to) \notin FOUR_MEME_RELATED_ADDRESSES
          /\ ToLower(log.from) \notin KNOWN_DEX_CONTRACTS
          /\ ToLower(log.to) \notin KNOWN_DEX_CONTRACTS
  THEN "transfer"
  ELSE Null

TradeOfLog(log, seen) ==
  [tokenAddress |-> ToLower(log.address),
   type |-> TradeTypeOf(log, seen),
   txHash |-> log.transactionHash,
   logIndex |-> log.logIndex,
   amount |-> TokenAmountOf(log),
   from |-> ToLower(log.from),
   to |-> ToLower(log.to),
   fromIsCreator |-> ToLower(log.from) = ToLower(seen[ToLower(log.address)].creator),
   toIsCreator |-> ToLower(log.to) = ToLower(seen[ToLower(log.address)].creator)]

detectTrades(txLogs, seen) ==
  LET pushed == SelectSeq(txLogs, LAMBDA log : TradeTypeOf(log, seen) # Null)
  IN  [i \in DOMAIN pushed |-> TradeOfLog(pushed[i], seen)]

\* One iteration of a loop of updateTokenStats, on the tokenInfo object.
ApplyTrade(tokenInfo, t) ==
  IF t.type = "buy"
  THEN [tokenInfo EXCEPT
          !.buyCount = @ + 1,
          !.uniqueBuyers = @ \cup {t.to},
          !.totalBuyVolume = @ + HexToBigInt(t.amount),
          !.devHoldings = IF t.toIsCreator THEN @ + HexToBigInt(t.amount) ELSE @,
          !.trades = Append(@, [type |-> "buy", amount |-> t.amount, who |-> t.to,
                                txHash |-> t.txHash, isCreator |-> t.toIsCreator])]
  ELSE IF t.type = "sell"
  THEN [tokenInfo EXCEPT
          !.sellCount = @ + 1,
          !.uniqueSellers = @ \cup {t.from},
          !.totalSellVolume = @ + HexToBigInt(t.amount),
          !.devHoldings = IF t.fromIsCreator THEN @ - HexToBigInt(t.amount) ELSE @,
          !.trades = Append(@, [type |-> "sell", amount |-> t.amount, who |-> t.from,
                                txHash |-> t.txHash, isCreator |-> t.fromIsCreator])]
  ELSE [tokenInfo EXCEPT
          !.devHoldings = IF t.fromIsCreator THEN @ - HexToBigInt(t.amount)
                          ELSE IF t.toIsCreator THEN @ + HexToBigInt(t.amount)
                          ELSE @,
          !.hasWalletTransfers = TRUE,
          !.walletTransfers = Append(@, [from |-> t.from, to |-> t.to,
                                         amount |-> t.amount, txHash |-> t.txHash])]

RECURSIVE ApplyTrades(_, _)
ApplyTrades(tokenInfo, trades) ==
  IF trades = <<>> THEN tokenInfo
  ELSE ApplyTrades(ApplyTrade(tokenInfo, Head(trades)), Tail(trades))

\* The buys, then the sells, then the transfers.
updateTokenStats(tokenInfo, trades) ==
  ApplyTrades(tokenInfo,
              SelectSeq(trades, LAMBDA t : t.type = "buy")
              \o SelectSeq(trades, LAMBDA t : t.type = "sell")
              \o SelectSeq(trades, LAMBDA t : t.type = "transfer"))

\* utils.js calculateDevHolding: what the creator received minus what it
\* sent in the transaction.
RECURSIVE CreatorBalance(_, _, _)
CreatorBalance(txLogs, tokenAddress, creatorAddress) ==
  IF txLogs = <<>> THEN 0
  ELSE CreatorBalance(Tail(txLogs), tokenAddress, creatorAddress)
       + (IF ToLower(Head(txLogs).address) # tokenAddress THEN 0
          ELSE IF ToLower(Head(txLogs).to) = ToLower(creatorAddress)
          THEN HexToBigInt(EncodeData(Head(txLogs).value))
          ELSE IF ToLower(Head(txLogs).from) = ToLower(creatorAddress)
          THEN 0 - HexToBigInt(EncodeData(Head(txLogs).value))
          ELSE 0)

\* detectNewTokens lines 211-233: the first recipient of the token from the
\* platform, else the recipient of the token's last event.
CreatorOf(txLogs, tokenAddress) ==
  LET transfersFromFourMeme ==
        SelectSeq(txLogs, LAMBDA log :
          ToLower(log.address) = tokenAddress
          /\ ToLower(log.from) = ToLower(FOUR_MEME_ADDRESS))
  IN  IF transfersFromFourMeme # <<>> THEN ToLower(transfersFromFourMeme[1].to)
      ELSE LastByLogIndex(SelectSeq(txLogs, LAMBDA log :
                            ToLower(log.address) = tokenAddress)).to

\* The tokenInfo literal of detectNewTokens (lines 244-265); getTokenData
\* returns no totalSupply, so totalSupply is undefined and the volumes and
\* devHoldings start at "0".
AnalyzerTokenInfo(tokenAddress, tokenData, creatorAddress, txHash, devHolding) ==
  [tokenAddress |-> tokenAddress, name |-> tokenData.name, symbol |-> tokenData.symbol,
   totalSupply |-> NoValue, creator |-> creatorAddress, transactionHash |-> txHash,
   devHolding |-> devHolding,
   hasTrades |-> TRUE, trades |-> <<>>, buyCount |-> 1, sellCount |-> 0,
   uniqueBuyers |-> {ToLower(creatorAddress)}, uniqueSellers |-> {}, setsAre |-> "Set",
   totalBuyVolume |-> 0, totalSellVolume |-> 0,
   hasDevHoldings |-> TRUE, devHoldings |-> 0,
   hasWalletTransfers |-> FALSE, walletTransfers |-> <<>>,
   hasCrossPlatformTrades |-> FALSE, crossPlatformTrades |-> <<>>]

RECURSIVE detectNewTokens(_, _, _, _, _)
PushDetected(tokenInfo, more) ==
  [seen |-> more.seen, detectedTokens |-> <<tokenInfo>> \o more.detectedTokens]

\* Lines 268-269 for the record built for a mint.
TokenCreated(rest, txLogs, txHash, seen, probe, tokenInfo) ==
  PushDetected(tokenInfo,
               detectNewTokens(rest, txLogs, txHash,
                               (tokenInfo.tokenAddress :> tokenInfo) @@ seen, probe))

\* The loop over mintsToFourMeme; isLikelyToken and getTokenData both rest
\* on the probe of the contract.
detectNewTokens(mints, txLogs, txHash, seen, probe) ==
  IF mints = <<>> THEN [seen |-> seen, detectedTokens |-> <<>>]
  ELSE IF \/ ToLower(Head(mints).address) \in INFRASTRUCTURE_CONTRACTS
          \/ ToLower(Head(mints).address) \in DOMAIN seen
          \/ ~getTokenData(ToLower(Head(mints).address), probe).success
  THEN detectNewTokens(Tail(mints), txLogs, txHash, seen, probe)
  ELSE TokenCreated(Tail(mints), txLogs, txHash, seen, probe,
         AnalyzerTokenInfo(ToLower(Head(mints).address),
           getTokenData(ToLower(Head(mints).address), probe),
           CreatorOf(txLogs, ToLower(Head(mints).address)), txHash,
           CreatorBalance(txLogs, ToLower(Head(mints).address),
                          CreatorOf(txLogs, ToLower(Head(mints).address)))))

RECURSIVE AnalyzeGroups(_, _, _, _, _, _, _)
\* processBlockLogs lines 83-128 for the first group, d being what
\* detectNewTokens returned and n the outcome of the saves of the new tokens.
GroupAnalyzed(groups, seen, n, tradesByToken, probe, dbDown) ==
  AnalyzeGroups(Tail(groups), seen, n.db,
                n.updatedTokens
                  \cup {t.tokenAddress : t \in Range(detectTrades(Head(groups).txLogs, seen))},
                tradesByToken \o detectTrades(Head(groups).txLogs, seen),
                probe, dbDown)

GroupCreated(groups, d, dbv, updatedTokens, tradesByToken, probe, dbDown) ==
  GroupAnalyzed(groups, d.seen,
                SaveNewTokens(d.detectedTokens, dbv, updatedTokens, dbDown),
                tradesByToken, probe, dbDown)

AnalyzeGroups(groups, seen, dbv, updatedTokens, tradesByToken, probe, dbDown) ==
  IF groups = <<>>
  THEN [seen |-> seen, db |-> dbv, updatedTokens |-> updatedTokens,
        tradesByToken |-> tradesByToken]
  ELSE GroupCreated(groups,
         detectNewTokens(SelectSeq(Head(groups).txLogs, IsMintToFourMeme),
                         Head(groups).txLogs, Head(groups).txHash, seen, probe),
         dbv, updatedTokens, tradesByToken, probe, dbDown)

RECURSIVE UpdateAndSave(_, _, _, _, _)
StatsUpdated(rest, tokenAddress, seen, dbv, tradesByToken, dbDown, tokenInfo) ==
  UpdateAndSave(rest, [seen EXCEPT ![tokenAddress] = tokenInfo],
                saveToken(tokenAddress, tokenInfo, dbv, dbDown).db, tradesByToken, dbDown)

\* processBlockLogs lines 132-153.
UpdateAndSave(addresses, seen, dbv, tradesByToken, dbDown) ==
  IF addresses = <<>> THEN [seen |-> seen, db |-> dbv]
  ELSE IF SelectSeq(tradesByToken, LAMBDA t : t.tokenAddress = Head(addresses)) = <<>>
  THEN UpdateAndSave(Tail(addresses), seen, dbv, tradesByToken, dbDown)
  ELSE StatsUpdated(Tail(addresses), Head(addresses), seen, dbv, tradesByToken, dbDown,
         updateTokenStats(seen[Head(addresses)],
                          SelectSeq(tradesByToken,
                                    LAMBDA t : t.tokenAddress = Head(addresses))))

BlockAnalyzed(a, dbDown) ==
  UpdateAndSave(SetToSeq(a.updatedTokens), a.seen, a.db, a.tradesByToken, dbDown)

processBlockLogs(logs, seen, dbv, probe, dbDown) ==
  BlockAnalyzed(AnalyzeGroups(groupLogsByTransaction(logs), seen, dbv, {}, <<>>, probe,
                              dbDown),
                dbDown)

(***************************************************************************)
(* loadTokensFromDatabase.  The documents come back with uniqueBuyers and  *)
(* uniqueSellers as Arrays.  The test meant to turn them into Sets,        *)
(* `!token.uniqueBuyers instanceof Set`, applies instanceof to the boolean *)
(* !token.uniqueBuyers.  dbDown: the query fails, the error is logged and  *)
(* the tracker goes on with an empty map.                                  *)
(***************************************************************************)
\* (!x) instanceof Set: a boolean is not an instance of Set.
NegationInstanceofSet(x) == FALSE

loadToken(token) ==
  [token EXCEPT !.setsAre = IF NegationInstanceofSet(@) THEN "Set" ELSE @]

loadTokensFromDatabase(dbv, dbDown) ==
  IF dbDown THEN <<>>
  ELSE [k \in {ToLower(dbv[a].tokenAddress) : a \in DOMAIN dbv} |->
          loadToken(dbv[CHOOSE a \in DOMAIN dbv : ToLower(dbv[a].tokenAddress) = k])]

(***************************************************************************)
(* The detector on its own: detectNewToken applied to one transaction      *)
(* group after another, all sharing one seenTokens map.                    *)
(***************************************************************************)
TxHashes == {"0xa1", "0xa2"}

DetectPool(tx) ==
  { Log("0xaa01", ZERO_ADDRESS, FOUR_MEME_ADDRESS, 1000000, 0, tx),
    Log("0xAA01", FOUR_MEME_ADDRESS, "0xCAFE", 1000000, 1, tx),
    Log("0xaa01", FOUR_MEME_ADDRESS, "0xBEEF", 500, 2, tx),
    Log("0xaa01", "0xBEEF", "0x5c95ffdb", 500, 3, tx),
    Log("0xbb02", ZERO_ADDRESS, FOUR_MEME_ADDRESS, 1000000, 4, tx),
    Log("0xbb02", FOUR_MEME_ADDRESS, "0xBEEF", 0, 5, tx) }

NoOp == [op |-> "none"]

\* A block handler that is not running.  pc names the call the handler is
\* suspended at; seen, rest, tokenInfo, updated and docs are its locals.
Idle ==
  [pc |-> "idle", txLogs |-> <<>>, seen |-> <<>>, rest |-> <<>>, tokenInfo |-> <<>>,
   updated |-> {}, docs |-> <<>>]

\* The process of the tracker when main() reaches setupBlockWatcher: the
\* module's flags (shutdownRequested, isConnected), the watchBlockNumber
\* calls made since a block was last handled and the delays waited between
\* them, the signal received, the uninstallFilter call and the
\* connection.close call of the two signal handlers, the exit timer, and
\* the blocks handled after shutdown was requested.
Started ==
  [pc |-> "setupBlockWatcher", shutdownRequested |-> FALSE, isConnected |-> FALSE,
   setupCalls |-> 0, delays |-> <<>>, signal |-> "none", uninstall |-> "none",
   filter |-> 0, close |-> "none", exitTimer |-> FALSE, exited |-> FALSE,
   exitCode |-> 0, handledAfter |-> 0]

\* After construction: an empty seenTokens over an empty collection, the
\* filter main() created before it registered the block handler.
Init ==
  /\ seenTokens = <<>>
  /\ db = <<>>
  /\ detections = <<>>
  /\ last = NoOp
  /\ blocks = 0
  /\ globalFilter = 1
  /\ liveFilters = {1}
  /\ filtersCreated = 1
  /\ handlers = [h \in 1..MaxHandlers |-> Idle]
  /\ delivered = {}
  /\ applied = {}
  /\ proc = Started
  /\ queue = <<>>
  /\ queueLog = <<>>

Count(f, k) == IF k \in DOMAIN f THEN f[k] ELSE 0

\* The caller is back in the event loop: the record of the last call (its
\* inputs, the store before it and its result) goes out of scope.
Return ==
  /\ last # NoOp
  /\ last' = NoOp
  /\ UNCHANGED <<seenTokens, db, detections, blocks, globalFilter, liveFilters,
               filtersCreated, handlers, delivered, applied, proc, queue, queueLog>>

DetectStep ==
  /\ last = NoOp
  /\ \E tx \in TxHashes, probe \in Probes :
      \E txLogs \in InjSeqs(DetectPool(tx), MaxTxLogs) :
        \E r \in {detectNewToken(txLogs, tx, seenTokens, probe)} :
          /\ seenTokens' = r.seenTokens
          /\ detections' =
               IF r.found
               THEN (r.tokenInfo.tokenAddress :>
                       Count(detections, r.tokenInfo.tokenAddress) + 1) @@ detections
               ELSE detections
          /\ last' = [op |-> "detectNewToken", txLogs |-> txLogs, txHash |-> tx,
                      probe |-> probe, before |-> seenTokens, result |-> r]
          /\ UNCHANGED <<db, blocks, globalFilter, liveFilters, filtersCreated,
                         handlers, delivered, applied, proc, queue, queueLog>>

SpecDetect == Init /\ [][DetectStep \/ Return]_vars


(***************************************************************************)
(* C2.  A token address that is already a key of seenTokens is never       *)
(* re-evaluated for creation: no address is returned by detectNewToken     *)
(* more than once, and a call leaves every record that was in the map      *)
(* before it unchanged (the record it returns is for a key that was not    *)
(* in the map).                                                            *)
(***************************************************************************)
C2_DetectedAtMostOnce ==
  /\ \A k \in DOMAIN detections : detections[k] <= 1
  /\ last.op = "detectNewToken" =>
       /\ \A k \in DOMAIN last.before :
            k \in DOMAIN seenTokens /\ seenTokens[k] = last.before[k]
       /\ last.result.found =>
            last.result.tokenInfo.tokenAddress \notin DOMAIN last.before

\* A second sighting: the mint+deposit pattern of an already tracked token
\* shows up again, in another transaction than the one that created it.
C2_Witness ==
  /\ last.op = "detectNewToken"
  /\ \E k \in DOMAIN last.before :
       /\ last.before[k].transactionHash # last.txHash
       /\ \E i, j \in DOMAIN last.txLogs :
            /\ ToLower(last.txLogs[i].address) = k
            /\ last.txLogs[i].from = ZERO_ADDRESS
            /\ ToLower(last.txLogs[i].to) = ToLower(FOUR_MEME_ADDRESS)
            /\ ToLower(last.txLogs[j].address) = k
            /\ ToLower(last.txLogs[j].from) = ToLower(FOUR_MEME_ADDRESS)

(***************************************************************************)
(* C5.  Scenario A: a transaction whose logs are a mint of T to the        *)
(* platform followed by a transfer of T from the platform to C, with T     *)
(* not yet tracked, makes detectNewToken insert exactly one record, for T, *)
(* with creator C and an issuer residual holding (devHolding.amount) equal *)
(* to the amount of the platform -> C transfer.                            *)
(***************************************************************************)
ScenarioA(txLogs) ==
  /\ Len(txLogs) = 2
  /\ txLogs[1].from = ZERO_ADDRESS
  /\ ToLower(txLogs[1].to) = ToLower(FOUR_MEME_ADDRESS)
  /\ ToLower(txLogs[2].address) = ToLower(txLogs[1].address)
  /\ ToLower(txLogs[2].from) = ToLower(FOUR_MEME_ADDRESS)
  /\ txLogs[2].value > 0
  /\ txLogs[1].logIndex < txLogs[2].logIndex

C5_ScenarioA ==
  (/\ last.op = "detectNewToken"
   /\ ScenarioA(last.txLogs)
   /\ ToLower(last.txLogs[1].address) \notin DOMAIN last.before)
  =>
    LET T == ToLower(last.txLogs[1].address)
        r == last.result
    IN  /\ r.found
        /\ r.tokenInfo.tokenAddress = T
        /\ r.tokenInfo.creator = last.txLogs[2].to
        /\ r.tokenInfo.devHolding.amount = last.txLogs[2].value
        /\ DOMAIN seenTokens = DOMAIN last.before \cup {T}
        /\ seenTokens[T] = r.tokenInfo
        /\ detections[T] = 1

C5_Witness ==
  /\ last.op = "detectNewToken"
  /\ ScenarioA(last.txLogs)
  /\ last.before = <<>>
  /\ last.txLogs[2].to = "0xCAFE"
  /\ last.txLogs[2].value = 1000000
  /\ DOMAIN seenTokens = {"0xaa01"}
  /\ seenTokens["0xaa01"].creator = "0xCAFE"
  /\ seenTokens["0xaa01"].devHolding.amount = 1000000

(***************************************************************************)
(* processTokenLogs applied to one block after another over one seenTokens *)
(* map.  A block is a sequence of Transfer logs of the chain: the creation *)
(* pair of token 0xaa01, buys and sells by a third party and by the        *)
(* creator, a wallet transfer to the creator and a zero-amount transfer.   *)
(***************************************************************************)
TradePool ==
  { Log("0xaa01", ZERO_ADDRESS, FOUR_MEME_ADDRESS, 1000000, 0, "0xa1"),
    Log("0xaa01", FOUR_MEME_ADDRESS, "0xCAFE", 1000000, 1, "0xa1"),
    Log("0xaa01", FOUR_MEME_ADDRESS, "0xBEEF", 500, 2, "0xa1"),
    Log("0xaa01", "0xBEEF", FOUR_MEME_ADDRESS, 500, 3, "0xa1"),
    Log("0xaa01", "0xCAFE", FOUR_MEME_ADDRESS, 200, 4, "0xa1"),
    Log("0xaa01", "0xBEEF", "0xCAFE", 500, 5, "0xa1"),
    Log("0xaa01", FOUR_MEME_ADDRESS, "0xBEEF", 0, 6, "0xa1") }

\* The logs getFilterChanges can return for a block: distinct logs of the
\* pool in any order, the first cut of them emitted by transaction 0xa1 and
\* the rest by transaction 0xa2.
BlocksOf(pool) ==
  { [i \in DOMAIN ls |->
       [ls[i] EXCEPT !.transactionHash = IF i <= cut THEN "0xa1" ELSE "0xa2"]] :
    ls \in InjSeqs(pool, MaxBlockLogs), cut \in 1..MaxBlockLogs }

\* The outcomes the contract probe can have in a block: it is called only
\* for a block that holds a mint to the platform.
ProbesFor(logs) ==
  IF \E i \in DOMAIN logs : IsMintToFourMeme(logs[i]) THEN Probes ELSE {"ok"}

\* The outcomes the receipt fetch can have in a block: it is called only for
\* a transfer with neither side the platform.
ReceiptsFor(logs) ==
  IF \E i \in DOMAIN logs :
       /\ ToLower(logs[i].from) # ToLower(FOUR_MEME_ADDRESS)
       /\ ToLower(logs[i].to) # ToLower(FOUR_MEME_ADDRESS)
  THEN Receipts ELSE {"plain"}

ProcessTokenLogsStep ==
  /\ last = NoOp
  /\ blocks < MaxBlocks
  /\ \E logs \in BlocksOf(TradePool), dbDown \in BOOLEAN :
      \E probe \in ProbesFor(logs), receipt \in ReceiptsFor(logs) :
        \E r \in {processTokenLogs(logs, seenTokens, db, probe, receipt, dbDown)} :
          /\ blocks' = blocks + 1
          /\ seenTokens' = r.seen
          /\ db' = r.db
          /\ last' = [op |-> "processTokenLogs", logs |-> logs, probe |-> probe,
                      receipt |-> receipt, dbDown |-> dbDown, before |-> seenTokens,
                      dbBefore |-> db, threw |-> r.threw, done |-> r.done,
                      updatedTokens |-> r.updatedTokens]
          /\ UNCHANGED <<detections, globalFilter, liveFilters, filtersCreated,
                        handlers, delivered, applied, proc, queue, queueLog>>

SpecProcessor == Init /\ [][ProcessTokenLogsStep \/ Return]_vars

\* The record of a tracked token as the classifier sees it: trade tracking
\* seeded if it was not yet.
Seeded(seen, tokenAddress) == initializeTokenTradeTracking(seen[tokenAddress])

IsBuyLog(log) == ToLower(log.from) = ToLower(FOUR_MEME_ADDRESS) /\ log.value > 0

IsSellLog(log) ==
  /\ ToLower(log.from) # ToLower(FOUR_MEME_ADDRESS)
  /\ ToLower(log.to) = ToLower(FOUR_MEME_ADDRESS)
  /\ log.value > 0

(***************************************************************************)
(* C1.  Scenario B: a block holding one transfer {from = platform, to = X, *)
(* value = v > 0} of a tracked token whose seeded record has buyCount = 1  *)
(* and totalBuyVolume = totalSupply leaves, in the record stored in        *)
(* seenTokens, buyCount = 2, X in uniqueBuyers, totalBuyVolume grown by v, *)
(* exactly one buy TradeRecord appended, and devHoldings grown by v when X *)
(* is the creator.                                                         *)
(***************************************************************************)
C1_BuyRecorded ==
  (/\ last.op = "processTokenLogs"
   /\ Len(last.logs) = 1
   /\ IsBuyLog(last.logs[1])
   /\ ToLower(last.logs[1].address) \in DOMAIN last.before
   /\ Seeded(last.before, ToLower(last.logs[1].address)).buyCount = 1
   /\ Seeded(last.before, ToLower(last.logs[1].address)).totalBuyVolume =
        Seeded(last.before, ToLower(last.logs[1].address)).totalSupply)
  =>
    LET log == last.logs[1]
        T == ToLower(log.address)
        X == ToLower(log.to)
        S == Seeded(last.before, T)
        R == seenTokens[T]
        isCreator == X = ToLower(S.creator)
    IN  /\ R.buyCount = 2
        /\ X \in R.uniqueBuyers
        /\ R.totalBuyVolume = S.totalBuyVolume + log.value
        /\ R.trades = Append(S.trades,
                        TradeRecord("buy", X, log.value, log.transactionHash, isCreator))
        /\ isCreator => R.devHoldings = S.devHoldings + log.value

RECURSIVE CreatorNet(_, _)
\* Sum of the creator-buy amounts minus the creator-sell amounts among logs.
CreatorNet(logs, tokenInfo) ==
  IF logs = <<>> THEN 0
  ELSE LET log == Head(logs)
           mine == ToLower(log.address) = tokenInfo.tokenAddress
           delta == IF mine /\ IsBuyLog(log) /\ ToLower(log.to) = ToLower(tokenInfo.creator)
                    THEN log.value
                    ELSE IF mine /\ IsSellLog(log)
                              /\ ToLower(log.from) = ToLower(tokenInfo.creator)
                    THEN 0 - log.value
                    ELSE 0
       IN  delta + CreatorNet(Tail(logs), tokenInfo)

IsCreatorTrade(log, seen) ==
  /\ ToLower(log.address) \in DOMAIN seen
  /\ \/ IsBuyLog(log) /\ ToLower(log.to) = ToLower(seen[ToLower(log.address)].creator)
     \/ IsSellLog(log) /\ ToLower(log.from) = ToLower(seen[ToLower(log.address)].creator)

(***************************************************************************)
(* C3.  A block of creator buys and creator sells of tracked tokens moves  *)
(* the stored devHoldings of each token by exactly the sum of the creator  *)
(* buys minus the sum of the creator sells, starting from totalSupply at   *)
(* seeding: devHoldings = totalSupply + sum(buys) - sum(sells).            *)
(***************************************************************************)
C3_DevHoldingsExact ==
  (/\ last.op = "processTokenLogs"
   /\ last.logs # <<>>
   /\ \A i \in DOMAIN last.logs : IsCreatorTrade(last.logs[i], last.before))
  =>
    \A i \in DOMAIN last.logs :
      LET T == ToLower(last.logs[i].address)
          S == Seeded(last.before, T)
      IN  /\ seenTokens[T].hasDevHoldings
          /\ seenTokens[T].devHoldings = S.devHoldings + CreatorNet(last.logs, S)

(***************************************************************************)
(* The block handler of the tracker, one block notification after another, *)
(* each handled to its end before the next; the node may drop the filter   *)
(* between two notifications.                                              *)
(***************************************************************************)
\* The chain activity the handler is run on: the creation pair of 0xaa01, a
\* buy, a wallet transfer to the creator and a zero-amount transfer.
HandlerPool ==
  { Log("0xaa01", ZERO_ADDRESS, FOUR_MEME_ADDRESS, 1000000, 0, "0xa1"),
    Log("0xaa01", FOUR_MEME_ADDRESS, "0xCAFE", 1000000, 1, "0xa1"),
    Log("0xaa01", FOUR_MEME_ADDRESS, "0xBEEF", 500, 2, "0xa1"),
    Log("0xaa01", "0xBEEF", "0xCAFE", 500, 5, "0xa1"),
    Log("0xaa01", FOUR_MEME_ADDRESS, "0xBEEF", 0, 6, "0xa1") }

ProcessBlockStep ==
  /\ last = NoOp
  /\ blocks < MaxHandlerBlocks
  /\ \E logs \in BlocksOf(HandlerPool), dbDown \in BOOLEAN :
      \E probe \in ProbesFor(logs), receipt \in ReceiptsFor(logs) :
        \E r \in {processBlock(logs, seenTokens, db, globalFilter, liveFilters,
                               filtersCreated, probe, receipt, dbDown, TRUE)} :
          /\ blocks' = blocks + 1
          /\ seenTokens' = r.seen
          /\ db' = r.db
          /\ globalFilter' = r.globalFilter
          /\ liveFilters' = r.liveFilters
          /\ filtersCreated' = r.filtersCreated
          /\ last' = [op |-> "processBlock", logs |-> logs, probe |-> probe,
                      receipt |-> receipt, dbDown |-> dbDown, before |-> seenTokens,
                      dbBefore |-> db, error |-> r.error, done |-> r.done,
                      updatedTokens |-> r.updatedTokens]
          /\ UNCHANGED <<detections, handlers, delivered, applied, proc, queue, queueLog>>

\* The node forgets a filter (it was not polled in time, or the node
\* restarted).
FilterExpires ==
  /\ last = NoOp
  /\ \E f \in liveFilters : liveFilters' = liveFilters \ {f}
  /\ UNCHANGED <<seenTokens, db, detections, last, blocks, globalFilter, filtersCreated,
               handlers, delivered, applied, proc, queue, queueLog>>

SpecHandler == Init /\ [][ProcessBlockStep \/ FilterExpires \/ Return]_vars

IsWalletLog(log) ==
  /\ ToLower(log.from) \notin FOUR_MEME_RELATED_ADDRESSES
  /\ ToLower(log.to) \notin FOUR_MEME_RELATED_ADDRESSES
  /\ ToLower(log.to) \notin KNOWN_DEX_CONTRACTS
  /\ log.value > 0

\* Scenario C on the handler's last block: one log, a wallet transfer of a
\* token tracked before the block, from an address in uniqueBuyers other
\* than the creator to the creator, in a transaction whose receipt holds no
\* WBNB transfer, the filter being polled successfully.
ScenarioC ==
  /\ last.op = "processBlock"
  /\ last.error # "getFilterChanges"
  /\ Len(last.logs) = 1
  /\ IsWalletLog(last.logs[1])
  /\ last.receipt = "plain"
  /\ ToLower(last.logs[1].address) \in DOMAIN last.before
  /\ ToLower(last.logs[1].to) =
       ToLower(Seeded(last.before, ToLower(last.logs[1].address)).creator)
  /\ ToLower(last.logs[1].from) #
       ToLower(Seeded(last.before, ToLower(last.logs[1].address)).creator)
  /\ ToLower(last.logs[1].from) \in
       Seeded(last.before, ToLower(last.logs[1].address)).uniqueBuyers

(***************************************************************************)
(* C6.  Scenario C: on a tracked token with creator C and previously       *)
(* observed buyer B, a block holding the one transfer {from = B, to = C,   *)
(* value = v} with no WBNB transfer in its transaction appends one entry   *)
(* to walletTransfers of the stored record and increases devHoldings by    *)
(* exactly v, while buyCount, sellCount, the volumes, the unique-address   *)
(* sets and trades stay as they were.                                      *)
(***************************************************************************)
C6_WalletTransferRecorded ==
  ScenarioC =>
    LET log == last.logs[1]
        T == ToLower(log.address)
        S == Seeded(last.before, T)
        R == seenTokens[T]
    IN  /\ last.error = "none"
        /\ R.hasWalletTransfers
        /\ R.walletTransfers =
             Append(S.walletTransfers,
                    [from |-> ToLower(log.from), to |-> ToLower(log.to),
                     amount |-> log.value, txHash |-> log.transactionHash])
        /\ R.hasDevHoldings
        /\ R.devHoldings = S.devHoldings + log.value
        /\ R.buyCount = S.buyCount
        /\ R.sellCount = S.sellCount
        /\ R.totalBuyVolume = S.totalBuyVolume
        /\ R.totalSellVolume = S.totalSellVolume
        /\ R.uniqueBuyers = S.uniqueBuyers
        /\ R.uniqueSellers = S.uniqueSellers
        /\ R.trades = S.trades

C6_Witness ==
  /\ ScenarioC
  /\ last.logs[1].from = "0xBEEF"
  /\ last.logs[1].to = "0xCAFE"
  /\ last.logs[1].value = 500
  /\ seenTokens["0xaa01"].devHoldings =
       Seeded(last.before, "0xaa01").devHoldings + 500
  /\ Len(seenTokens["0xaa01"].walletTransfers) =
       Len(Seeded(last.before, "0xaa01").walletTransfers) + 1

(***************************************************************************)
(* C10.  An error raised while one transaction group is classified does    *)
(* not abort the block: whenever the filter was polled, every transaction  *)
(* group of the block is processed to its end, and every token updated in  *)
(* the block is saved (its document is the stored record) unless the       *)
(* database rejects the save.                                              *)
(***************************************************************************)
C10_GroupIsolation ==
  (last.op = "processBlock" /\ last.error # "getFilterChanges")
  =>
    /\ last.done = Len(groupLogsByTransaction(last.logs))
    /\ ~last.dbDown =>
         \A k \in last.updatedTokens :
           /\ k \in DOMAIN db
           /\ db[k] = TokenStatsSchema([seenTokens[k] EXCEPT !.setsAre = "Array"])

(***************************************************************************)
(* C7.  When a poll fails because the node no longer knows the filter, the *)
(* handler recreates the filter: at the end of that handler run            *)
(* globalFilter is a filter the node knows, so that the next poll          *)
(* succeeds.                                                               *)
(***************************************************************************)
C7_FilterRecreated ==
  (last.op = "processBlock" /\ last.error = "getFilterChanges")
  => globalFilter \in liveFilters

(***************************************************************************)
(* processBlockLogs of the analyzer applied to one block after another     *)
(* over one seenTokens map.                                                *)
(***************************************************************************)
AnalyzerPool ==
  { Log("0xaa01", ZERO_ADDRESS, FOUR_MEME_ADDRESS, 1000000, 0, "0xa1"),
    Log("0xaa01", FOUR_MEME_ADDRESS, "0xCAFE", 1000000, 1, "0xa1"),
    Log("0xaa01", FOUR_MEME_ADDRESS, "0xBEEF", 500, 2, "0xa1"),
    Log("0xaa01", "0xBEEF", "0xCAFE", 500, 5, "0xa1"),
    Log("0xaa01", FOUR_MEME_ADDRESS, "0xBEEF", 0, 6, "0xa1"),
    Log("0xaa01", "0xBEEF", "0xCAFE", 0, 7, "0xa1") }

ProcessBlockLogsStep ==
  /\ last = NoOp
  /\ blocks < MaxBlocks
  /\ \E logs \in BlocksOf(AnalyzerPool), dbDown \in BOOLEAN :
      \E probe \in ProbesFor(logs) :
        \E r \in {processBlockLogs(logs, seenTokens, db, probe, dbDown)} :
          /\ blocks' = blocks + 1
          /\ seenTokens' = r.seen
          /\ db' = r.db
          /\ last' = [op |-> "processBlockLogs", logs |-> logs, probe |-> probe,
                      dbDown |-> dbDown, before |-> seenTokens, dbBefore |-> db]
          /\ UNCHANGED <<detections, globalFilter, liveFilters, filtersCreated,
                        handlers, delivered, applied, proc, queue, queueLog>>

SpecAnalyzer == Init /\ [][ProcessBlockLogsStep \/ Return]_vars

(***************************************************************************)
(* C4.  A block whose logs are all transfers of amount 0 of tokens tracked *)
(* before it leaves buyCount, sellCount, totalBuyVolume, totalSellVolume,  *)
(* the unique-address sets, trades and walletTransfers of every stored     *)
(* record unchanged (here for detectTrades followed by updateTokenStats).  *)
(***************************************************************************)
C4_ZeroAmountNoOp ==
  (/\ last.op = "processBlockLogs"
   /\ last.logs # <<>>
   /\ \A i \in DOMAIN last.logs :
        /\ last.logs[i].value = 0
        /\ ToLower(last.logs[i].address) \in DOMAIN last.before)
  =>
    \A T \in DOMAIN last.before :
      /\ seenTokens[T].buyCount = last.before[T].buyCount
      /\ seenTokens[T].sellCount = last.before[T].sellCount
      /\ seenTokens[T].totalBuyVolume = last.before[T].totalBuyVolume
      /\ seenTokens[T].totalSellVolume = last.before[T].totalSellVolume
      /\ seenTokens[T].uniqueBuyers = last.before[T].uniqueBuyers
      /\ seenTokens[T].uniqueSellers = last.before[T].uniqueSellers
      /\ seenTokens[T].trades = last.before[T].trades
      /\ seenTokens[T].walletTransfers = last.before[T].walletTransfers

(***************************************************************************)
(* The tracker over restarts: the process stops (its filter is uninstalled *)
(* or forgotten) and main() runs again, loading seenTokens from the        *)
(* collection and creating a new filter.                                   *)
(***************************************************************************)
Restart ==
  /\ last = NoOp
  /\ filtersCreated < MaxFilters
  /\ \E dbDown \in BOOLEAN :
       /\ seenTokens' = loadTokensFromDatabase(db, dbDown)
       /\ last' = [op |-> "loadTokensFromDatabase", dbDown |-> dbDown,
                   before |-> seenTokens, dbBefore |-> db]
  /\ globalFilter' = filtersCreated + 1
  /\ liveFilters' = (liveFilters \ {globalFilter}) \cup {filtersCreated + 1}
  /\ filtersCreated' = filtersCreated + 1
  /\ UNCHANGED <<db, detections, blocks, handlers, delivered, applied, proc, queue, queueLog>>

SpecPersist == Init /\ [][ProcessBlockStep \/ Restart \/ Return]_vars

\* The document of the collection is what saveToken wrote for this record.
IsSaveOf(doc, tokenInfo) ==
  doc = TokenStatsSchema([tokenInfo EXCEPT !.setsAre = "Array"])

(***************************************************************************)
(* C9.  A tracked token with seeded trade tracking that was saved with     *)
(* saveToken and is loaded back by loadTokensFromDatabase has equal        *)
(* address, creator, buyCount, sellCount, totalBuyVolume, totalSellVolume  *)
(* and devHoldings, and uniqueBuyers and uniqueSellers are Sets again with *)
(* the same members.                                                       *)
(***************************************************************************)
C9_SaveLoadRoundTrip ==
  (last.op = "loadTokensFromDatabase" /\ ~last.dbDown)
  =>
    \A k \in DOMAIN last.before :
      (/\ last.before[k].hasTrades
       /\ k \in DOMAIN last.dbBefore
       /\ IsSaveOf(last.dbBefore[k], last.before[k]))
      =>
        /\ k \in DOMAIN seenTokens
        /\ seenTokens[k].tokenAddress = last.before[k].tokenAddress
        /\ seenTokens[k].creator = last.before[k].creator
        /\ seenTokens[k].buyCount = last.before[k].buyCount
        /\ seenTokens[k].sellCount = last.before[k].sellCount
        /\ seenTokens[k].totalBuyVolume = last.before[k].totalBuyVolume
        /\ seenTokens[k].totalSellVolume = last.before[k].totalSellVolume
        /\ seenTokens[k].hasDevHoldings = last.before[k].hasDevHoldings
        /\ seenTokens[k].devHoldings = last.before[k].devHoldings
        /\ seenTokens[k].setsAre = "Set"
        /\ seenTokens[k].uniqueBuyers = last.before[k].uniqueBuyers
        /\ seenTokens[k].uniqueSellers = last.before[k].uniqueSellers

(***************************************************************************)
(* The block watcher.  watchBlockNumber calls onBlock for every block      *)
(* notification and does not wait for the promise the async callback       *)
(* returns: a handler runs until it awaits a call to the node or to the    *)
(* database, and other handlers run until that call answers.  Each action  *)
(* below is the code of one handler between two such awaits.  A poll       *)
(* returns the logs of one transaction the filter has not reported yet, or *)
(* nothing.                                                                *)
(***************************************************************************)
WatcherBatches ==
  { << Log("0xaa01", ZERO_ADDRESS, FOUR_MEME_ADDRESS, 1000000, 0, "0xa1"),
       Log("0xaa01", FOUR_MEME_ADDRESS, "0xCAFE", 1000000, 1, "0xa1") >>,
    << Log("0xaa01", "0xBEEF", "0xCAFE", 500, 0, "0xa2") >>,
    << Log("0xaa01", "0xBEEF", "0xCAFE", 300, 0, "0xa3") >> }

\* processTokenTrades reaches `await client.getTransactionReceipt` for
\* this log: the transfer is between two wallets and nothing before the
\* await returned or threw.
AwaitsReceipt(log, tokenInfo) ==
  /\ ~MissingData(log)
  /\ ~IsRelatedSkip(ToLower(log.from), ToLower(log.to))
  /\ ToLower(log.from) # ToLower(FOUR_MEME_ADDRESS)
  /\ ToLower(log.to) # ToLower(FOUR_MEME_ADDRESS)
  /\ ToLower(log.from) \notin FOUR_MEME_RELATED_ADDRESSES
  /\ ToLower(log.to) \notin FOUR_MEME_RELATED_ADDRESSES
  /\ (ToLower(tokenInfo.creator) \in {ToLower(log.from), ToLower(log.to)}
        => initializeTokenTradeTracking(tokenInfo).hasDevHoldings)

RECURSIVE TradesUntilAwait(_, _, _, _)
\* checkForTokenTrades after processTokenTrades (result r) returned or
\* threw without waiting for the node.
TradeSettled(rest, txHash, seen, tokenAddress, r, updated) ==
  IF r.threw
  THEN [pc |-> "idle", seen |-> [seen EXCEPT ![tokenAddress] = r.stored],
        rest |-> <<>>, updated |-> updated]
  ELSE IF r.found
  THEN TradesUntilAwait(rest, txHash, [seen EXCEPT ![tokenAddress] = r.tokenInfo],
                        updated \cup {tokenAddress})
  ELSE TradesUntilAwait(rest, txHash, [seen EXCEPT ![tokenAddress] = r.stored], updated)

\* The loop of checkForTokenTrades from its next log up to the next await
\* of a receipt; after the last log, saveUpdatedTokens calls saveToken for
\* the updated tokens and awaits the writes.
TradesUntilAwait(relevantLogs, txHash, seen, updated) ==
  IF relevantLogs = <<>>
  THEN [pc |-> IF updated = {} THEN "idle" ELSE "saveUpdatedTokens", seen |-> seen,
        rest |-> <<>>, updated |-> updated]
  ELSE IF AwaitsReceipt(Head(relevantLogs), seen[ToLower(Head(relevantLogs).address)])
  THEN [pc |-> "getTransactionReceipt", seen |-> seen, rest |-> relevantLogs,
        updated |-> updated]
  ELSE TradeSettled(Tail(relevantLogs), txHash, seen, ToLower(Head(relevantLogs).address),
                    processTokenTrades(Head(relevantLogs), txHash,
                                       seen[ToLower(Head(relevantLogs).address)], "plain"),
                    updated)

\* The handler's locals where it is suspended after TradesUntilAwait (t):
\* the record it read from seenTokens for the log it is classifying, or the
\* documents saveToken built from seenTokens before awaiting the writes.
Suspended(txLogs, t) ==
  [pc |-> t.pc, txLogs |-> txLogs, seen |-> <<>>, rest |-> t.rest,
   tokenInfo |-> IF t.pc = "getTransactionReceipt"
                 THEN <<t.seen[ToLower(Head(t.rest).address)]>> ELSE <<>>,
   updated |-> t.updated,
   docs |-> IF t.pc = "saveUpdatedTokens"
            THEN SaveAll(SetToSeq(t.updated), t.seen, <<>>, FALSE) ELSE <<>>]

RelevantLogs(txLogs, seen) ==
  SelectSeq(txLogs, LAMBDA log : ToLower(log.address) \in DOMAIN seen)

\* checkForNewToken reaches `await getTokenData` inside detectNewToken.
AwaitsTokenData(txLogs, seen) ==
  /\ \E i \in DOMAIN txLogs : IsMintToFourMeme(txLogs[i])
  /\ detectNewToken(txLogs, txLogs[1].transactionHash, seen, "ok").found

\* A block notification: onBlock calls processBlock, which awaits
\* getFilterChanges.
OnBlock(h) ==
  /\ handlers[h].pc = "idle"
  /\ blocks < MaxHandlerBlocks
  /\ globalFilter # NoFilter
  /\ blocks' = blocks + 1
  /\ handlers' = [handlers EXCEPT ![h] = [Idle EXCEPT !.pc = "getFilterChanges"]]
  /\ UNCHANGED <<seenTokens, db, detections, last, globalFilter, liveFilters,
                 filtersCreated, delivered, applied, proc, queue, queueLog>>

\* getFilterChanges answers.
Polled(h) ==
  /\ handlers[h].pc = "getFilterChanges"
  /\ \E logs \in (WatcherBatches \ delivered) \cup {<<>>} :
       /\ delivered' = delivered \cup ({logs} \ {<<>>})
       /\ IF globalFilter \notin liveFilters \/ logs = <<>>
          THEN /\ handlers' = [handlers EXCEPT ![h] = Idle]
               /\ UNCHANGED seenTokens
          ELSE IF AwaitsTokenData(logs, seenTokens)
          THEN /\ handlers' = [handlers EXCEPT ![h] =
                                 [Idle EXCEPT !.pc = "getTokenData", !.txLogs = logs,
                                              !.seen = seenTokens]]
               /\ UNCHANGED seenTokens
          ELSE \E t \in {TradesUntilAwait(RelevantLogs(logs, seenTokens),
                                          logs[1].transactionHash, seenTokens, {})} :
                 /\ seenTokens' = t.seen
                 /\ handlers' = [handlers EXCEPT ![h] = Suspended(logs, t)]
  /\ UNCHANGED <<db, detections, last, blocks, globalFilter, liveFilters,
                 filtersCreated, applied, proc, queue, queueLog>>

\* getTokenData answers: detectNewToken and checkForNewToken store the
\* record, and checkForNewToken awaits saveToken.
Probed(h) ==
  /\ handlers[h].pc = "getTokenData"
  /\ \E probe \in Probes :
       \E r \in {detectNewToken(handlers[h].txLogs, handlers[h].txLogs[1].transactionHash,
                                handlers[h].seen, probe)} :
         /\ seenTokens' = (ToLower(r.tokenInfo.tokenAddress) :> r.tokenInfo) @@ seenTokens
         /\ detections' = (r.tokenInfo.tokenAddress :>
                             Count(detections, r.tokenInfo.tokenAddress) + 1) @@ detections
         /\ handlers' = [handlers EXCEPT ![h] =
                           [@ EXCEPT !.pc = "saveToken", !.seen = <<>>,
                                     !.updated = {r.tokenInfo.tokenAddress},
                                     !.docs = saveToken(r.tokenInfo.tokenAddress, r.tokenInfo,
                                                        <<>>, FALSE).db]]
  /\ UNCHANGED <<db, last, blocks, globalFilter, liveFilters, filtersCreated,
                 delivered, applied, proc, queue, queueLog>>

\* The write of the new token answers (dbDown: it failed and the error was
\* logged); checkForTokenTrades starts on the logs of the transaction.
NewTokenSaved(h) ==
  /\ handlers[h].pc = "saveToken"
  /\ \E dbDown \in BOOLEAN :
       db' = IF dbDown THEN db ELSE handlers[h].docs @@ db
  /\ \E t \in {TradesUntilAwait(RelevantLogs(handlers[h].txLogs, seenTokens),
                                handlers[h].txLogs[1].transactionHash, seenTokens,
                                handlers[h].updated)} :
       /\ seenTokens' = t.seen
       /\ handlers' = [handlers EXCEPT ![h] = Suspended(handlers[h].txLogs, t)]
  /\ UNCHANGED <<detections, last, blocks, globalFilter, liveFilters, filtersCreated,
                 delivered, applied, proc, queue, queueLog>>

\* checkForTokenTrades after the awaited processTokenTrades (result r)
\* answered: seenTokens.set with the record made from the one the handler
\* read before the await, then the rest of the loop.
ReceiptSettled(h, tokenAddress, r) ==
  IF r.threw
  THEN /\ handlers' = [handlers EXCEPT ![h] = Idle]
       /\ UNCHANGED <<seenTokens, applied, queue, queueLog>>
  ELSE \E t \in {TradesUntilAwait(
                   Tail(handlers[h].rest), handlers[h].txLogs[1].transactionHash,
                   IF r.found THEN [seenTokens EXCEPT ![tokenAddress] = r.tokenInfo]
                   ELSE seenTokens,
                   IF r.found THEN handlers[h].updated \cup {tokenAddress}
                   ELSE handlers[h].updated)} :
         /\ seenTokens' = t.seen
         /\ applied' = IF r.found THEN applied \cup {Head(handlers[h].rest)} ELSE applied
         /\ handlers' = [handlers EXCEPT ![h] = Suspended(handlers[h].txLogs, t)]

\* getTransactionReceipt answers.  With the two transfers of
\* WatcherBatches no two running handlers hold the same walletTransfers
\* array, so the record the handler read is as it read it.
ReceiptFetched(h) ==
  /\ handlers[h].pc = "getTransactionReceipt"
  /\ \E receipt \in Receipts :
       ReceiptSettled(h, ToLower(Head(handlers[h].rest).address),
                      processTokenTrades(Head(handlers[h].rest),
                                         handlers[h].txLogs[1].transactionHash,
                                         handlers[h].tokenInfo[1], receipt))
  /\ UNCHANGED <<db, detections, last, blocks, globalFilter, liveFilters,
                 filtersCreated, delivered, proc, queue, queueLog>>

\* The writes of saveUpdatedTokens answer; processBlock returns.
UpdatedSaved(h) ==
  /\ handlers[h].pc = "saveUpdatedTokens"
  /\ \E dbDown \in BOOLEAN :
       db' = IF dbDown THEN db ELSE handlers[h].docs @@ db
  /\ handlers' = [handlers EXCEPT ![h] = Idle]
  /\ UNCHANGED <<seenTokens, detections, last, blocks, globalFilter, liveFilters,
                 filtersCreated, delivered, applied, proc, queue, queueLog>>

WatcherNext ==
  \/ \E h \in DOMAIN handlers : OnBlock(h)
  \/ \E h \in DOMAIN handlers : Polled(h)
  \/ \E h \in DOMAIN handlers : Probed(h)
  \/ \E h \in DOMAIN handlers : NewTokenSaved(h)
  \/ \E h \in DOMAIN handlers : ReceiptFetched(h)
  \/ \E h \in DOMAIN handlers : UpdatedSaved(h)

SpecWatcher == Init /\ [][WatcherNext]_vars

Running == {h \in DOMAIN handlers : handlers[h].pc # "idle"}

RECURSIVE NetToCreator(_, _)
\* What the transfers of S add to the creator's holding.
NetToCreator(S, creator) ==
  IF S = {} THEN 0
  ELSE LET l == CHOOSE x \in S : TRUE
       IN  (IF ToLower(l.from) = ToLower(creator) THEN 0 - l.value
            ELSE IF ToLower(l.to) = ToLower(creator) THEN l.value
            ELSE 0) + NetToCreator(S \ {l}, creator)

AppliedTo(tokenAddress) == {l \in applied : ToLower(l.address) = tokenAddress}

(***************************************************************************)
(* C8.  Block notifications are processed one at a time: no handler is     *)
(* between its start and its end while another one is, and no update of   *)
(* devHoldings is lost: the stored devHoldings is the total supply plus    *)
(* what the wallet transfers the handlers classified moved to the creator. *)
(***************************************************************************)
C8_OneAtATime ==
  /\ Cardinality(Running) <= 1
  /\ \A k \in DOMAIN seenTokens :
       AppliedTo(k) # {} =>
         seenTokens[k].devHoldings =
           seenTokens[k].totalSupply + NetToCreator(AppliedTo(k), seenTokens[k].creator)

\* The second half of C8 alone.
NoLostUpdate ==
  \A k \in DOMAIN seenTokens :
    AppliedTo(k) # {} =>
      seenTokens[k].devHoldings =
        seenTokens[k].totalSupply + NetToCreator(AppliedTo(k), seenTokens[k].creator)

(***************************************************************************)
(* C11.  Every token whose record in seenTokens was changed (or inserted)  *)
(* while a block was processed has been written with saveToken in its      *)
(* state after the block when the handler of that block ends: unless the   *)
(* database rejects the write, its document is the stored record.          *)
(***************************************************************************)
C11_DirtyFlushed ==
  (last.op = "processBlock" /\ last.error # "getFilterChanges" /\ ~last.dbDown)
  =>
    \A k \in DOMAIN seenTokens :
      (k \notin DOMAIN last.before \/ seenTokens[k] # last.before[k])
      => /\ k \in DOMAIN db
         /\ IsSaveOf(db[k], seenTokens[k])

(***************************************************************************)
(* processLogs of main.js.  The first pass calls detectNewToken once for   *)
(* every log of every transaction and saves each new token.  The second    *)
(* pass classifies each log on the stored object itself; where it means to *)
(* skip a log it executes `return`, which leaves processLogs.  outcome is  *)
(* "done" (the save loop ran), "returned" (a return in the second pass) or *)
(* "threw" (getTransactionReceipt rejected); visited counts the logs of    *)
(* the second pass that were classified to their end.                      *)
(***************************************************************************)
RECURSIVE FirstPassTx(_, _, _, _, _, _, _)
\* Lines 76-89 after one detectNewToken call r.
FirstPassDetected(n, txLogs, txHash, r, dbv, probe, dbDown) ==
  FirstPassTx(n - 1, txLogs, txHash, r.seenTokens,
              IF r.found
              THEN saveToken(r.tokenInfo.tokenAddress, r.tokenInfo, dbv, dbDown).db
              ELSE dbv,
              probe, dbDown)

\* Lines 67-90: one detectNewToken call for each of the n remaining logs.
FirstPassTx(n, txLogs, txHash, seen, dbv, probe, dbDown) ==
  IF n = 0 THEN [seen |-> seen, db |-> dbv]
  ELSE FirstPassDetected(n, txLogs, txHash, detectNewToken(txLogs, txHash, seen, probe),
                         dbv, probe, dbDown)

RECURSIVE FirstPass(_, _, _, _, _)
FirstPassNext(groups, f, probe, dbDown) == FirstPass(groups, f.seen, f.db, probe, dbDown)

\* Lines 66-91.
FirstPass(groups, seen, dbv, probe, dbDown) ==
  IF groups = <<>> THEN [seen |-> seen, db |-> dbv]
  ELSE FirstPassNext(Tail(groups),
                     FirstPassTx(Len(Head(groups).txLogs), Head(groups).txLogs,
                                 Head(groups).txHash, seen, dbv, probe, dbDown),
                     probe, dbDown)

\* Lines 118-129: the seeding of main.js sets no devHoldings.
SeedTracking(tokenInfo) ==
  IF ~tokenInfo.hasTrades
  THEN [tokenInfo EXCEPT
          !.hasTrades = TRUE, !.trades = <<>>, !.buyCount = 1, !.sellCount = 0,
          !.uniqueBuyers = {ToLower(tokenInfo.creator)}, !.uniqueSellers = {},
          !.setsAre = "Set", !.totalBuyVolume = tokenInfo.totalSupply,
          !.totalSellVolume = 0]
  ELSE tokenInfo

\* Lines 136-286 on the (seeded) object tokenInfo: what the branch does to
\* it.  how is "go on", "return" or "throw".
ClassifyInPlace(tokenInfo, fromAddress, toAddress, tokenAmount, txHash, receipt) ==
  IF fromAddress = ToLower(FOUR_MEME_ADDRESS)
  THEN IF tokenInfo.setsAre # "Set"
       THEN [how |-> "throw", updated |-> FALSE,
             tokenInfo |-> [tokenInfo EXCEPT !.buyCount = @ + 1]]
       ELSE [how |-> "go on", updated |-> TRUE,
             tokenInfo |-> [tokenInfo EXCEPT
                              !.buyCount = @ + 1,
                              !.uniqueBuyers = @ \cup {toAddress},
                              !.totalBuyVolume = @ + tokenAmount,
                              !.trades = Append(@, TradeRecord("buy", toAddress, tokenAmount,
                                                               txHash, FALSE))]]
  ELSE IF toAddress = ToLower(FOUR_MEME_ADDRESS)
  THEN IF tokenInfo.setsAre # "Set"
       THEN [how |-> "throw", updated |-> FALSE,
             tokenInfo |-> [tokenInfo EXCEPT !.sellCount = @ + 1]]
       ELSE [how |-> "go on", updated |-> TRUE,
             tokenInfo |-> [tokenInfo EXCEPT
                              !.sellCount = @ + 1,
                              !.uniqueSellers = @ \cup {fromAddress},
                              !.totalSellVolume = @ + tokenAmount,
                              !.trades = Append(@, TradeRecord("sell", fromAddress, tokenAmount,
                                                               txHash, FALSE))]]
  ELSE IF \/ fromAddress \in FOUR_MEME_RELATED_ADDRESSES
          \/ toAddress \in FOUR_MEME_RELATED_ADDRESSES
          \/ fromAddress \notin tokenInfo.uniqueBuyers
  THEN [how |-> "go on", updated |-> FALSE, tokenInfo |-> tokenInfo]
  ELSE IF receipt = "error"
  THEN [how |-> "throw", updated |-> FALSE, tokenInfo |-> tokenInfo]
  ELSE IF toAddress \in KNOWN_DEX_CONTRACTS
  THEN [how |-> "return", updated |-> FALSE, tokenInfo |-> tokenInfo]
  ELSE IF receipt # "wbnb"
  THEN [how |-> "go on", updated |-> TRUE,
        tokenInfo |-> [tokenInfo EXCEPT
                         !.hasWalletTransfers = TRUE,
                         !.walletTransfers =
                           Append(@, [from |-> fromAddress, to |-> toAddress,
                                      amount |-> tokenAmount, txHash |-> txHash])]]
  ELSE [how |-> "go on", updated |-> FALSE, tokenInfo |-> tokenInfo]

RECURSIVE SecondPass(_, _, _, _)
CountVisited(more) == [more EXCEPT !.visited = @ + 1]

\* Lines 286-290 after the branch c of a log: seenTokens.set, next log.
\* The branches write on the object of the map when it was seeded before.
SecondPassStored(rest, seen, updatedTokens, receipt, tokenAddress, wasSeeded, c) ==
  IF c.how = "go on"
  THEN CountVisited(SecondPass(rest, [seen EXCEPT ![tokenAddress] = c.tokenInfo],
                               IF c.updated THEN updatedTokens \cup {tokenAddress}
                               ELSE updatedTokens,
                               receipt))
  ELSE [outcome |-> IF c.how = "return" THEN "returned" ELSE "threw",
        seen |-> IF wasSeeded THEN [seen EXCEPT ![tokenAddress] = c.tokenInfo] ELSE seen,
        updatedTokens |-> updatedTokens, visited |-> 0]

\* Lines 94-290 over the logs in the order of the two nested loops.
SecondPass(logs, seen, updatedTokens, receipt) ==
  IF logs = <<>>
  THEN [outcome |-> "done", seen |-> seen, updatedTokens |-> updatedTokens, visited |-> 0]
  ELSE IF \/ ToLower(Head(logs).address) \notin DOMAIN seen
          \/ MissingData(Head(logs))
          \/ IsRelatedSkip(ToLower(Head(logs).from), ToLower(Head(logs).to))
  THEN [outcome |-> "returned", seen |-> seen, updatedTokens |-> updatedTokens,
        visited |-> 0]
  ELSE SecondPassStored(Tail(logs), seen, updatedTokens, receipt,
                        ToLower(Head(logs).address),
                        seen[ToLower(Head(logs).address)].hasTrades,
                        ClassifyInPlace(SeedTracking(seen[ToLower(Head(logs).address)]),
                                        ToLower(Head(logs).from), ToLower(Head(logs).to),
                                        Head(logs).value, Head(logs).transactionHash,
                                        receipt))

RECURSIVE Flatten(_)
\* The logs in the order the loops over logsByTx and txLogs visit them.
Flatten(groups) ==
  IF groups = <<>> THEN <<>> ELSE Head(groups).txLogs \o Flatten(Tail(groups))

\* Lines 293-304 after the second pass t.
LogsSaved(t, dbv, dbDown) ==
  [outcome |-> t.outcome, seen |-> t.seen, updatedTokens |-> t.updatedTokens,
   visited |-> t.visited,
   db |-> IF t.outcome = "done"
          THEN SaveAll(SetToSeq(t.updatedTokens), t.seen, dbv, dbDown) ELSE dbv]

LogsDetected(groups, f, receipt, dbDown) ==
  LogsSaved(SecondPass(Flatten(groups), f.seen, {}, receipt), f.db, dbDown)

processLogs(logs, seen, dbv, probe, receipt, dbDown) ==
  LogsDetected(groupLogsByTransaction(logs),
               FirstPass(groupLogsByTransaction(logs), seen, dbv, probe, dbDown),
               receipt, dbDown)

(***************************************************************************)
(* The tracker of main.js: onBlockNumber polls the filter and hands the    *)
(* logs to processLogs; its catch recreates the filter when the message of *)
(* the error contains 'filter not found' (notFound: it does).              *)
(***************************************************************************)
MainPool ==
  { Log("0xaa01", ZERO_ADDRESS, FOUR_MEME_ADDRESS, 1000000, 0, "0xa1"),
    Log("0xaa01", FOUR_MEME_ADDRESS, "0xBEEF", 500, 2, "0xa1"),
    Log("0xaa01", "0xBEEF", FOUR_MEME_ADDRESS, 500, 3, "0xa1"),
    Log("0xaa01", "0xBEEF", "0xCAFE", 500, 5, "0xa1"),
    Log("0xaa01", "0xDEAD", "0xCAFE", 300, 6, "0xa1"),
    Log("0xaa01", "0xBEEF", GMGN_ROUTER, 500, 7, "0xa1"),
    Log("0xaa01", FOUR_MEME_ADDRESS, "0xBEEF", 0, 8, "0xa1"),
    Log("0xaa01", "0xBEEF", FOUR_MEME_HELPER, 500, 9, "0xa1") }

\* The handler when getFilterChanges rejected.
PollFailed(seen, dbv, filter, live, created, notFound) ==
  [outcome |-> "getFilterChanges", seen |-> seen, db |-> dbv, updatedTokens |-> {},
   visited |-> 0,
   globalFilter |-> IF notFound THEN created + 1 ELSE filter,
   liveFilters |-> IF notFound THEN live \cup {created + 1} ELSE live,
   filtersCreated |-> IF notFound THEN created + 1 ELSE created]

LogsProcessed(r, filter, live, created) ==
  [outcome |-> r.outcome, seen |-> r.seen, db |-> r.db, updatedTokens |-> r.updatedTokens,
   visited |-> r.visited, globalFilter |-> filter, liveFilters |-> live,
   filtersCreated |-> created]

onBlockNumber(logs, seen, dbv, filter, live, created, probe, receipt, dbDown, notFound) ==
  IF filter \notin live
  THEN PollFailed(seen, dbv, filter, live, created, notFound)
  ELSE LogsProcessed(processLogs(logs, seen, dbv, probe, receipt, dbDown),
                     filter, live, created)

OnBlockNumberStep ==
  /\ last = NoOp
  /\ blocks < MaxBlocks
  /\ \E logs \in BlocksOf(MainPool), dbDown \in BOOLEAN :
      \E probe \in ProbesFor(logs), receipt \in ReceiptsFor(logs),
         notFound \in IF globalFilter \in liveFilters THEN {FALSE} ELSE BOOLEAN :
        \E r \in {onBlockNumber(logs, seenTokens, db, globalFilter, liveFilters,
                                filtersCreated, probe, receipt, dbDown, notFound)} :
          /\ blocks' = blocks + 1
          /\ seenTokens' = r.seen
          /\ db' = r.db
          /\ globalFilter' = r.globalFilter
          /\ liveFilters' = r.liveFilters
          /\ filtersCreated' = r.filtersCreated
          /\ last' = [op |-> "processLogs", logs |-> logs, probe |-> probe,
                      receipt |-> receipt, dbDown |-> dbDown, before |-> seenTokens,
                      dbBefore |-> db, outcome |-> r.outcome, visited |-> r.visited,
                      updatedTokens |-> r.updatedTokens]
          /\ UNCHANGED <<detections, handlers, delivered, applied, proc, queue, queueLog>>

SpecMain == Init /\ [][OnBlockNumberStep \/ Return]_vars

\* A log processLogs means to skip: its token is not tracked, it lacks
\* from, to or value, its amount is zero, or one side is platform
\* infrastructure.
IsSkippedLog(log, seen) ==
  \/ ToLower(log.address) \notin DOMAIN seen
  \/ MissingData(log)
  \/ IsRelatedSkip(ToLower(log.from), ToLower(log.to))

\* The platform trades (buys and sells) of token k among logs.
PlatformTrades(logs, k) ==
  SelectSeq(logs, LAMBDA log :
    /\ ToLower(log.address) = k
    /\ (IsBuyLog(log) \/ IsSellLog(log)))

(***************************************************************************)
(* C12.  In processLogs a skipped log affects only itself: in a batch that *)
(* holds a skipped log (and no transfer to an external exchange, and whose *)
(* receipt fetch does not fail) every buy and sell of a token tracked      *)
(* before the batch is still recorded in trades, and every record changed  *)
(* in the batch is saved at the end of the batch unless the database       *)
(* rejects the write.                                                      *)
(***************************************************************************)
C12_SkipAffectsOnlyItself ==
  (/\ last.op = "processLogs"
   /\ last.outcome \notin {"threw", "getFilterChanges"}
   /\ \E i \in DOMAIN last.logs : IsSkippedLog(last.logs[i], seenTokens)
   /\ \A i \in DOMAIN last.logs : ToLower(last.logs[i].to) \notin KNOWN_DEX_CONTRACTS)
  =>
    \A k \in DOMAIN last.before :
      /\ Len(seenTokens[k].trades) =
           Len(last.before[k].trades) + Len(PlatformTrades(last.logs, k))
      /\ (~last.dbDown /\ seenTokens[k] # last.before[k])
           => (k \in DOMAIN db /\ IsSaveOf(db[k], seenTokens[k]))

(***************************************************************************)
(* C13.  A block holding one transfer {from = X, to = platform, value = v  *)
(* > 0} of a tracked token records a sell: in the record stored in         *)
(* seenTokens sellCount grows by 1, X is in uniqueSellers, totalSellVolume *)
(* grows by v, exactly one sell TradeRecord is appended, buyCount,         *)
(* uniqueBuyers and totalBuyVolume stay, and devHoldings shrinks by v when *)
(* X is the creator.                                                       *)
(***************************************************************************)
C13_SellRecorded ==
  (/\ last.op = "processTokenLogs"
   /\ Len(last.logs) = 1
   /\ IsSellLog(last.logs[1])
   /\ ~IsRelatedSkip(ToLower(last.logs[1].from), ToLower(last.logs[1].to))
   /\ ToLower(last.logs[1].address) \in DOMAIN last.before)
  =>
    LET log == last.logs[1]
        T == ToLower(log.address)
        X == ToLower(log.from)
        S == Seeded(last.before, T)
        R == seenTokens[T]
        isCreator == X = ToLower(S.creator)
    IN  /\ R.sellCount = S.sellCount + 1
        /\ X \in R.uniqueSellers
        /\ R.totalSellVolume = S.totalSellVolume + log.value
        /\ R.trades = Append(S.trades,
                        TradeRecord("sell", X, log.value, log.transactionHash, isCreator))
        /\ R.buyCount = S.buyCount
        /\ R.uniqueBuyers = S.uniqueBuyers
        /\ R.totalBuyVolume = S.totalBuyVolume
        /\ isCreator => R.devHoldings = S.devHoldings - log.value

(***************************************************************************)
(* The life of the tracker process: main() sets up the block watcher,      *)
(* the watcher delivers blocks or reports errors, a signal starts          *)
(* gracefulShutdown (and, for SIGINT, the handler connectToDatabase        *)
(* registered), and process.exit ends everything.                          *)
(***************************************************************************)
MAX_RECONNECT_ATTEMPTS == 5
RECONNECT_DELAY_MS == 5000
\* maxDelayMs handed to retryWithBackoff by handleWatcherError.
MaxDelayMs == 60000

\* setupBlockWatcher: clientWebsocket.watchBlockNumber either registers the
\* callbacks or throws; the catch waits RECONNECT_DELAY_MS and calls
\* setupBlockWatcher again unless shutdown was requested.
SetupBlockWatcher ==
  /\ ~proc.exited
  /\ proc.pc = "setupBlockWatcher"
  /\ proc.setupCalls < MaxSetupCalls
  /\ \E thrown \in BOOLEAN :
       proc' = IF ~thrown
               THEN [proc EXCEPT !.pc = "watching", !.setupCalls = @ + 1]
               ELSE IF ~proc.shutdownRequested
               THEN [proc EXCEPT !.setupCalls = @ + 1,
                                 !.delays = Append(@, RECONNECT_DELAY_MS)]
               ELSE [proc EXCEPT !.pc = "returned", !.setupCalls = @ + 1]
  /\ UNCHANGED <<seenTokens, db, detections, last, blocks, globalFilter, liveFilters,
                 filtersCreated, handlers, delivered, applied, queue, queueLog>>

\* onError of the watcher -> handleWatcherError: retryWithBackoff calls
\* setupBlockWatcher, which never rejects (its catch handles every error),
\* so the retry ends with that call and process.exit(1) is not reached.
HandleWatcherError ==
  /\ ~proc.exited
  /\ proc.pc = "watching"
  /\ proc.setupCalls < MaxSetupCalls
  /\ proc' = IF proc.shutdownRequested
             THEN [proc EXCEPT !.isConnected = FALSE]
             ELSE [proc EXCEPT !.isConnected = FALSE, !.pc = "setupBlockWatcher"]
  /\ proc' # proc
  /\ UNCHANGED <<seenTokens, db, detections, last, blocks, globalFilter, liveFilters,
                 filtersCreated, handlers, delivered, applied, queue, queueLog>>

\* onBlock of the watcher: processBlock, then isConnected = true.  Nothing
\* unsubscribes the watcher, so blocks keep arriving until the process exits.
OnBlockStep ==
  /\ ~proc.exited
  /\ proc.pc = "watching"
  /\ last = NoOp
  /\ blocks < MaxBlocks
  /\ \E logs \in WatcherBatches, dbDown \in BOOLEAN :
      \E probe \in ProbesFor(logs), receipt \in ReceiptsFor(logs) :
        \E r \in {processBlock(logs, seenTokens, db, globalFilter, liveFilters,
                               filtersCreated, probe, receipt, dbDown, TRUE)} :
          /\ blocks' = blocks + 1
          /\ seenTokens' = r.seen
          /\ db' = r.db
          /\ globalFilter' = r.globalFilter
          /\ liveFilters' = r.liveFilters
          /\ filtersCreated' = r.filtersCreated
          /\ last' = [op |-> "onBlock", logs |-> logs, probe |-> probe,
                      receipt |-> receipt, dbDown |-> dbDown, before |-> seenTokens,
                      dbBefore |-> db, error |-> r.error,
                      shutdownRequested |-> proc.shutdownRequested]
          /\ proc' = [proc EXCEPT !.isConnected = TRUE, !.setupCalls = 0,
                                  !.delays = <<>>,
                                  !.handledAfter =
                                     IF proc.shutdownRequested THEN @ + 1 ELSE @]
          /\ UNCHANGED <<detections, handlers, delivered, applied, queue, queueLog>>

\* SIGINT or SIGTERM: gracefulShutdown sets shutdownRequested and awaits
\* clientHttp.uninstallFilter when there is a filter; on SIGINT the handler
\* of connection.js awaits mongoose.connection.close() as well.
Signal ==
  /\ ~proc.exited
  /\ proc.signal = "none"
  /\ \E signal \in {"SIGINT", "SIGTERM"} :
       proc' = [proc EXCEPT !.signal = signal,
                            !.shutdownRequested = TRUE,
                            !.uninstall = IF globalFilter # NoFilter
                                          THEN "pending" ELSE "none",
                            !.filter = globalFilter,
                            !.exitTimer = (globalFilter = NoFilter),
                            !.close = IF signal = "SIGINT" THEN "pending" ELSE "none"]
  /\ UNCHANGED <<seenTokens, db, detections, last, blocks, globalFilter, liveFilters,
                 filtersCreated, handlers, delivered, applied, queue, queueLog>>

\* The uninstallFilter call settles (a rejection is logged by its .catch):
\* the finally block arms the 2 s exit timer.
UninstallSettles ==
  /\ ~proc.exited
  /\ proc.uninstall = "pending"
  /\ \E ok \in BOOLEAN :
       /\ proc' = [proc EXCEPT !.uninstall = IF ok THEN "released" ELSE "failed",
                               !.exitTimer = TRUE]
       /\ liveFilters' = IF ok THEN liveFilters \ {proc.filter} ELSE liveFilters
  /\ UNCHANGED <<seenTokens, db, detections, last, blocks, globalFilter,
                 filtersCreated, handlers, delivered, applied, queue, queueLog>>

\* The exit timer of gracefulShutdown fires: process.exit(0).
ForcedExit ==
  /\ ~proc.exited
  /\ proc.exitTimer
  /\ proc' = [proc EXCEPT !.exited = TRUE, !.exitCode = 0]
  /\ UNCHANGED <<seenTokens, db, detections, last, blocks, globalFilter, liveFilters,
                 filtersCreated, handlers, delivered, applied, queue, queueLog>>

\* mongoose.connection.close() of the SIGINT handler of connection.js
\* resolves: process.exit(0).
ConnectionClosed ==
  /\ ~proc.exited
  /\ proc.close = "pending"
  /\ proc' = [proc EXCEPT !.close = "closed", !.exited = TRUE, !.exitCode = 0]
  /\ UNCHANGED <<seenTokens, db, detections, last, blocks, globalFilter, liveFilters,
                 filtersCreated, handlers, delivered, applied, queue, queueLog>>

ProcessNext ==
  \/ SetupBlockWatcher
  \/ HandleWatcherError
  \/ OnBlockStep
  \/ Signal
  \/ UninstallSettles
  \/ ForcedExit
  \/ ConnectionClosed
  \/ Return

SpecProcess == Init /\ [][ProcessNext]_vars

(***************************************************************************)
(* C14.  While setting up the subscription keeps failing, the number of    *)
(* watchBlockNumber calls made since a block was last handled stays within *)
(* MAX_RECONNECT_ATTEMPTS retries of the first call, and each delay        *)
(* between two calls is longer than the one before it or is the maximum    *)
(* delay.                                                                  *)
(***************************************************************************)
C14_BoundedReconnect ==
  /\ proc.setupCalls <= MAX_RECONNECT_ATTEMPTS + 1
  /\ \A i \in 1..(Len(proc.delays) - 1) :
       \/ proc.delays[i + 1] > proc.delays[i]
       \/ proc.delays[i + 1] = MaxDelayMs
  /\ \A i \in DOMAIN proc.delays : proc.delays[i] <= MaxDelayMs

(***************************************************************************)
(* C15.  Once termination was requested no further block is handled (no    *)
(* record is changed any more), and the process exits only after the       *)
(* release of the filter it held was attempted and has settled.            *)
(***************************************************************************)
C15_ShutdownOrder ==
  /\ proc.handledAfter = 0
  /\ (proc.exited /\ proc.signal # "none" /\ proc.filter # NoFilter)
       => proc.uninstall # "pending"

(***************************************************************************)
(* The process under the scheduling Node guarantees: an armed timer fires  *)
(* and a handler that returned gives the event loop back.  Calls to the    *)
(* node and to the database are answered by the outside and need not       *)
(* settle.                                                                 *)
(***************************************************************************)
SpecProcessFair ==
  /\ SpecProcess
  /\ WF_vars(ForcedExit)
  /\ WF_vars(Return)

(***************************************************************************)
(* C16.  After a termination signal the process eventually exits, whether  *)
(* or not the uninstallFilter call ever settles.                           *)
(***************************************************************************)
C16_EventuallyExits == (proc.signal # "none") ~> proc.exited

(***************************************************************************)
(* The classifier of wallet transfers on the records processTokenLogs      *)
(* builds: blocks with the creation of 0xaa01, a buy by 0xBEEF and         *)
(* transfers to the routers and between wallets are processed, and         *)
(* processWalletTransfer is applied to a tracked record as its callers     *)
(* pass it (trade tracking initialised).                                   *)
(***************************************************************************)
TransferBatches ==
  { << Log("0xaa01", ZERO_ADDRESS, FOUR_MEME_ADDRESS, 1000000, 0, "0xa1"),
       Log("0xaa01", FOUR_MEME_ADDRESS, "0xCAFE", 1000000, 1, "0xa1") >>,
    << Log("0xaa01", FOUR_MEME_ADDRESS, "0xBEEF", 500, 0, "0xa2") >>,
    << Log("0xaa01", "0xBEEF", GMGN_ROUTER, 500, 0, "0xa3") >>,
    << Log("0xaa01", "0xBEEF", PANCAKE_ROUTER, 500, 0, "0xa4") >>,
    << Log("0xaa01", "0xCAFE", GMGN_ROUTER, 100, 0, "0xa5") >>,
    << Log("0xaa01", "0xDEAD", "0xF00D", 300, 0, "0xa6") >>,
    << Log("0xaa01", "0xBEEF", "0xF00D", 200, 0, "0xa7") >>,
    << Log("0xaa01", "0xCAFE", "0xF00D", 100, 0, "0xa8") >> }

\* The transfers of the batches with neither side the platform.
WalletLogs ==
  { b[1] : b \in { x \in TransferBatches :
                     /\ Len(x) = 1
                     /\ ToLower(x[1].from) # ToLower(FOUR_MEME_ADDRESS)
                     /\ ToLower(x[1].to) # ToLower(FOUR_MEME_ADDRESS) } }

TransferLogsStep ==
  /\ last = NoOp
  /\ blocks < MaxTransferBlocks
  /\ \E logs \in TransferBatches, dbDown \in BOOLEAN :
      \E probe \in ProbesFor(logs), receipt \in ReceiptsFor(logs) :
        \E r \in {processTokenLogs(logs, seenTokens, db, probe, receipt, dbDown)} :
          /\ blocks' = blocks + 1
          /\ seenTokens' = r.seen
          /\ db' = r.db
          /\ last' = [op |-> "processTokenLogs", logs |-> logs, probe |-> probe,
                      receipt |-> receipt, dbDown |-> dbDown, before |-> seenTokens,
                      dbBefore |-> db, threw |-> r.threw, done |-> r.done,
                      updatedTokens |-> r.updatedTokens]
          /\ UNCHANGED <<detections, globalFilter, liveFilters, filtersCreated,
                        handlers, delivered, applied, proc, queue, queueLog>>

\* What processWalletTransfer returned for tokenInfo: ret is the returned
\* record, updated the returned flag.
WalletTransferResult(tokenInfo, log, receipt, r) ==
  [op |-> "processWalletTransfer", tokenInfo |-> tokenInfo,
   fromAddress |-> ToLower(log.from), toAddress |-> ToLower(log.to),
   tokenAmount |-> log.value, txHash |-> log.transactionHash, receipt |-> receipt,
   threw |-> r.threw, updated |-> r.updated, ret |-> r.tokenInfo]

WalletTransferCall(tokenInfo, log, receipt) ==
  WalletTransferResult(tokenInfo, log, receipt,
                       processWalletTransfer(tokenInfo, ToLower(log.from), ToLower(log.to),
                                             log.value, log.transactionHash, receipt))

WalletTransferStep ==
  /\ last = NoOp
  /\ \E log \in WalletLogs, receipt \in Receipts :
       /\ ToLower(log.address) \in DOMAIN seenTokens
       /\ last' = WalletTransferCall(Seeded(seenTokens, ToLower(log.address)), log, receipt)
  /\ UNCHANGED <<seenTokens, db, detections, blocks, globalFilter, liveFilters,
                 filtersCreated, handlers, delivered, applied, proc, queue, queueLog>>

SpecClassifier == Init /\ [][TransferLogsStep \/ WalletTransferStep \/ Return]_vars

\* The buy TradeRecords of an address in a record.
BuysOf(tokenInfo, address) ==
  SelectSeq(tokenInfo.trades, LAMBDA t : t.type = "buy" /\ ToLower(t.who) = address)

(***************************************************************************)
(* C17.  processWalletTransfer applied to a transfer from an address with  *)
(* earlier buys of the token to an address of KNOWN_DEX_CONTRACTS (neither *)
(* side platform infrastructure) returns a record with exactly one more    *)
(* crossPlatformTrades entry, which names the source, the destination and  *)
(* the amount and carries the source's total bought amount and its number  *)
(* of buys; walletTransfers is as before.                                  *)
(***************************************************************************)
C17_CrossPlatformRecorded ==
  (/\ last.op = "processWalletTransfer"
   /\ ~last.threw
   /\ last.toAddress \in KNOWN_DEX_CONTRACTS
   /\ last.fromAddress \notin FOUR_MEME_RELATED_ADDRESSES
   /\ last.toAddress \notin FOUR_MEME_RELATED_ADDRESSES
   /\ last.fromAddress \in last.tokenInfo.uniqueBuyers
   /\ BuysOf(last.tokenInfo, last.fromAddress) # <<>>)
  =>
    /\ Len(last.ret.crossPlatformTrades) = Len(last.tokenInfo.crossPlatformTrades) + 1
    /\ SubSeq(last.ret.crossPlatformTrades, 1, Len(last.tokenInfo.crossPlatformTrades))
         = last.tokenInfo.crossPlatformTrades
    /\ LET e == last.ret.crossPlatformTrades[Len(last.ret.crossPlatformTrades)]
       IN  /\ e.from = last.fromAddress
           /\ e.to = last.toAddress
           /\ e.amount = last.tokenAmount
           /\ {"totalBought", "numberOfBuys"} \subseteq DOMAIN e
    /\ last.ret.walletTransfers = last.tokenInfo.walletTransfers

(***************************************************************************)
(* C18.  processWalletTransfer appends to walletTransfers only when the    *)
(* source is in the record's uniqueBuyers and the transaction carries no   *)
(* WBNB transfer: a transfer from an address that is not in uniqueBuyers   *)
(* leaves walletTransfers as it was.                                       *)
(***************************************************************************)
C18_OnlyBuyersTransfers ==
  (/\ last.op = "processWalletTransfer"
   /\ ~last.threw
   /\ last.ret.walletTransfers # last.tokenInfo.walletTransfers)
  =>
    /\ last.fromAddress \in last.tokenInfo.uniqueBuyers
    /\ last.receipt # "wbnb"

(***************************************************************************)
(* C19.  Whenever processWalletTransfer returns a record that differs from *)
(* the one it was given, the returned record has one more entry in         *)
(* walletTransfers or in crossPlatformTrades and the returned flag says    *)
(* updated.                                                                *)
(***************************************************************************)
C19_MutationRecorded ==
  (/\ last.op = "processWalletTransfer"
   /\ ~last.threw
   /\ last.ret # last.tokenInfo)
  =>
    /\ last.updated
    /\ \/ Len(last.ret.walletTransfers) = Len(last.tokenInfo.walletTransfers) + 1
       \/ Len(last.ret.crossPlatformTrades)
            = Len(last.tokenInfo.crossPlatformTrades) + 1

(***************************************************************************)
(* C20.  A block whose logs hold the mint to the platform of a token       *)
(* contract that is not tracked yet (and is not an infrastructure          *)
(* contract) leaves that token tracked in seenTokens also when the probe   *)
(* of its name and symbol failed.                                          *)
(***************************************************************************)
C20_ProbeFailureKept ==
  (last.op = "processBlockLogs" /\ last.probe = "fail")
  =>
    \A i \in DOMAIN last.logs :
      (/\ IsMintToFourMeme(last.logs[i])
       /\ ToLower(last.logs[i].address) \notin DOMAIN last.before
       /\ ToLower(last.logs[i].address) \notin INFRASTRUCTURE_CONTRACTS)
      => ToLower(last.logs[i].address) \in DOMAIN seenTokens

(***************************************************************************)
(* saveUpdatedTokens with a database that rejects the upserts of some      *)
(* tokens (failing): one saveToken per address that is a key of            *)
(* seenTokens, each with its own .catch that logs; Promise.all then waits  *)
(* for all of them.                                                        *)
(***************************************************************************)
RECURSIVE saveUpdatedTokens_failFast(_, _, _, _)
saveUpdatedTokens_failFast(tokenAddresses, seen, dbv, failing) ==
  IF tokenAddresses = <<>> THEN dbv
  ELSE IF Head(tokenAddresses) \notin DOMAIN seen
  THEN saveUpdatedTokens_failFast(Tail(tokenAddresses), seen, dbv, failing)
  ELSE IF Head(tokenAddresses) \in failing THEN dbv
  ELSE saveUpdatedTokens_failFast(Tail(tokenAddresses), seen,
         saveToken(Head(tokenAddresses), seen[Head(tokenAddresses)], dbv, FALSE).db,
         failing)

RECURSIVE saveUpdatedTokens(_, _, _, _)
saveUpdatedTokens(tokenAddresses, seen, dbv, failing) ==
  IF tokenAddresses = <<>> THEN dbv
  ELSE IF Head(tokenAddresses) \notin DOMAIN seen
  THEN saveUpdatedTokens(Tail(tokenAddresses), seen, dbv, failing)
  ELSE saveUpdatedTokens(Tail(tokenAddresses), seen,
         saveToken(Head(tokenAddresses), seen[Head(tokenAddresses)], dbv,
                   Head(tokenAddresses) \in failing).db,
         failing)

\* The blocks the handler is run on: the creations of 0xaa01 and 0xbb02 and
\* wallet transfers of both.
SaveBatches ==
  { << Log("0xaa01", ZERO_ADDRESS, FOUR_MEME_ADDRESS, 1000000, 0, "0xa1"),
       Log("0xaa01", FOUR_MEME_ADDRESS, "0xCAFE", 1000000, 1, "0xa1") >>,
    << Log("0xbb02", ZERO_ADDRESS, FOUR_MEME_ADDRESS, 1000000, 0, "0xb1"),
       Log("0xbb02", FOUR_MEME_ADDRESS, "0xBEEF", 1000000, 1, "0xb1") >>,
    << Log("0xaa01", "0xDEAD", "0xF00D", 300, 0, "0xa6"),
       Log("0xbb02", "0xDEAD", "0xF00D", 200, 0, "0xb6") >>,
    << Log("0xaa01", "0xDEAD", "0xCAFE", 100, 0, "0xa9") >> }

\* One block through processBlock; seenIfUp is what the handler would have
\* left in seenTokens had the database accepted every write.
SaveBlockDone(logs, probe, receipt, dbDown, r, up) ==
  /\ blocks' = blocks + 1
  /\ seenTokens' = r.seen
  /\ db' = r.db
  /\ globalFilter' = r.globalFilter
  /\ liveFilters' = r.liveFilters
  /\ filtersCreated' = r.filtersCreated
  /\ last' = [op |-> "processBlock", logs |-> logs, probe |-> probe,
              receipt |-> receipt, dbDown |-> dbDown, before |-> seenTokens,
              dbBefore |-> db, error |-> r.error, done |-> r.done,
              updatedTokens |-> r.updatedTokens, seenIfUp |-> up.seen,
              errorIfUp |-> up.error]

SaveBlockStep ==
  /\ last = NoOp
  /\ blocks < MaxSaveBlocks
  /\ \E logs \in SaveBatches, dbDown \in BOOLEAN :
      \E probe \in ProbesFor(logs), receipt \in ReceiptsFor(logs) :
        /\ SaveBlockDone(logs, probe, receipt, dbDown,
             processBlock(logs, seenTokens, db, globalFilter, liveFilters,
                          filtersCreated, probe, receipt, dbDown, TRUE),
             processBlock(logs, seenTokens, db, globalFilter, liveFilters,
                          filtersCreated, probe, receipt, FALSE, TRUE))
        /\ UNCHANGED <<detections, handlers, delivered, applied, proc, queue, queueLog>>

\* saveUpdatedTokens on some of the tracked tokens (and an address that is
\* not tracked), the database rejecting the upserts of the tokens in failing.
SaveUpdatedStep ==
  /\ last = NoOp
  /\ seenTokens # <<>>
  /\ \E updated \in SUBSET (DOMAIN seenTokens \cup {"0xcc03"}) :
       \E failing \in SUBSET (updated \cap DOMAIN seenTokens) :
         /\ updated # {}
         /\ db' = saveUpdatedTokens(SetToSeq(updated), seenTokens, db, failing)
         /\ last' = [op |-> "saveUpdatedTokens", tokenAddresses |-> updated,
                     failing |-> failing, before |-> seenTokens, dbBefore |-> db]
  /\ UNCHANGED <<seenTokens, detections, blocks, globalFilter, liveFilters,
                 filtersCreated, handlers, delivered, applied, proc, queue, queueLog>>

SpecSave == Init /\ [][SaveBlockStep \/ SaveUpdatedStep \/ Return]_vars

(***************************************************************************)
(* C21.  A rejected saveToken changes nothing but the log: after           *)
(* saveUpdatedTokens the records of seenTokens are as before, every        *)
(* updated token whose upsert was accepted has the document saveToken      *)
(* writes for its current record (also when the upsert of another token of *)
(* the same call was rejected, and also when an earlier save of this token *)
(* was rejected), and the document of a token whose upsert was rejected is *)
(* as before; a block handled while the database rejects the writes ends   *)
(* as it would have with the writes accepted and leaves the same records   *)
(* in seenTokens.                                                          *)
(***************************************************************************)
C21_SaveFailureIsolated ==
  /\ (last.op = "saveUpdatedTokens")
       => /\ seenTokens = last.before
          /\ \A k \in (last.tokenAddresses \cap DOMAIN seenTokens) \ last.failing :
               /\ k \in DOMAIN db
               /\ IsSaveOf(db[k], seenTokens[k])
          /\ \A k \in last.failing :
               /\ (k \in DOMAIN db) = (k \in DOMAIN last.dbBefore)
               /\ k \in DOMAIN db => db[k] = last.dbBefore[k]
          /\ \A k \in DOMAIN db \ last.tokenAddresses :
               k \in DOMAIN last.dbBefore /\ db[k] = last.dbBefore[k]
  /\ (last.op = "processBlock" /\ last.dbDown)
       => /\ seenTokens = last.seenIfUp
          /\ last.error = last.errorIfUp
          /\ db = last.dbBefore

\* A call of saveUpdatedTokens in which the upsert of one token was rejected
\* and the upsert of another wrote a new document.
C21_Witness ==
  /\ last.op = "saveUpdatedTokens"
  /\ \E k \in last.failing :
       k \notin DOMAIN db \/ ~IsSaveOf(db[k], seenTokens[k])
  /\ \E j \in (last.tokenAddresses \cap DOMAIN seenTokens) \ last.failing :
       j \notin DOMAIN last.dbBefore \/ db[j] # last.dbBefore[j]

(***************************************************************************)
(* Transfers that touch the helper contract of the platform, through both  *)
(* classifier loops: processTokenLogs (processTradesInTransaction) and the *)
(* block handler (processTokenTrades).                                     *)
(***************************************************************************)
SkipBatches ==
  { << Log("0xaa01", ZERO_ADDRESS, FOUR_MEME_ADDRESS, 1000000, 0, "0xa1"),
       Log("0xaa01", FOUR_MEME_ADDRESS, "0xCAFE", 1000000, 1, "0xa1") >>,
    << Log("0xaa01", "0xDEAD", "0xF00D", 300, 0, "0xa6") >>,
    << Log("0xaa01", "0xBEEF", FOUR_MEME_HELPER, 500, 0, "0xa2") >>,
    << Log("0xaa01", FOUR_MEME_HELPER, "0xCAFE", 300, 0, "0xa3") >>,
    << Log("0xaa01", FOUR_MEME_ADDRESS, FOUR_MEME_HELPER, 200, 0, "0xa4"),
       Log("0xaa01", FOUR_MEME_HELPER, FOUR_MEME_ADDRESS, 100, 1, "0xa4") >>,
    << Log("0xaa01", "0xBEEF", FOUR_MEME_HELPER, 500, 0, "0xa5"),
       Log("0xaa01", "0xDEAD", "0xCAFE", 200, 1, "0xa5") >> }

SkipLogsStep ==
  /\ last = NoOp
  /\ blocks < MaxSkipBlocks
  /\ \E logs \in SkipBatches, dbDown \in BOOLEAN :
      \E probe \in ProbesFor(logs), receipt \in ReceiptsFor(logs) :
        \E r \in {processTokenLogs(logs, seenTokens, db, probe, receipt, dbDown)} :
          /\ blocks' = blocks + 1
          /\ seenTokens' = r.seen
          /\ db' = r.db
          /\ last' = [op |-> "processTokenLogs", logs |-> logs, probe |-> probe,
                      receipt |-> receipt, dbDown |-> dbDown, before |-> seenTokens,
                      dbBefore |-> db, updatedTokens |-> r.updatedTokens]
          /\ UNCHANGED <<detections, globalFilter, liveFilters, filtersCreated,
                        handlers, delivered, applied, proc, queue, queueLog>>

SkipBlockStep ==
  /\ last = NoOp
  /\ blocks < MaxSkipBlocks
  /\ \E logs \in SkipBatches, dbDown \in BOOLEAN :
      \E probe \in ProbesFor(logs), receipt \in ReceiptsFor(logs) :
        \E r \in {processBlock(logs, seenTokens, db, globalFilter, liveFilters,
                               filtersCreated, probe, receipt, dbDown, TRUE)} :
          /\ blocks' = blocks + 1
          /\ seenTokens' = r.seen
          /\ db' = r.db
          /\ globalFilter' = r.globalFilter
          /\ liveFilters' = r.liveFilters
          /\ filtersCreated' = r.filtersCreated
          /\ last' = [op |-> "processBlock", logs |-> logs, probe |-> probe,
                      receipt |-> receipt, dbDown |-> dbDown, before |-> seenTokens,
                      dbBefore |-> db, updatedTokens |-> r.updatedTokens]
          /\ UNCHANGED <<detections, handlers, delivered, applied, proc, queue, queueLog>>

SpecSkip == Init /\ [][SkipLogsStep \/ SkipBlockStep \/ Return]_vars

\* A transfer of a tracked token with a side that is platform infrastructure
\* other than the main platform address.
TouchesInfrastructure(log, seen) ==
  /\ ToLower(log.address) \in DOMAIN seen
  /\ log.value # NoValue /\ log.value > 0
  /\ \/ ToLower(log.from) \in FOUR_MEME_RELATED_ADDRESSES \ {ToLower(FOUR_MEME_ADDRESS)}
     \/ ToLower(log.to) \in FOUR_MEME_RELATED_ADDRESSES \ {ToLower(FOUR_MEME_ADDRESS)}

(***************************************************************************)
(* C22.  A block all of whose logs are transfers of tracked tokens with a  *)
(* side that is platform infrastructure other than the main platform       *)
(* address leaves every record of seenTokens, the collection and the set   *)
(* of updated tokens as they were (no token is marked updated), through    *)
(* processTokenLogs and through the block handler.                         *)
(***************************************************************************)
C22_InfrastructureSkipped ==
  (/\ last.op \in {"processTokenLogs", "processBlock"}
   /\ last.logs # <<>>
   /\ \A i \in DOMAIN last.logs : TouchesInfrastructure(last.logs[i], last.before))
  =>
    /\ seenTokens = last.before
    /\ last.updatedTokens = {}
    /\ db = last.dbBefore

C22_Witness ==
  /\ last.op \in {"processTokenLogs", "processBlock"}
  /\ Len(last.logs) = 2
  /\ \A i \in DOMAIN last.logs : TouchesInfrastructure(last.logs[i], last.before)
  /\ ToLower(last.logs[1].from) = ToLower(FOUR_MEME_ADDRESS)
  /\ seenTokens = last.before

(***************************************************************************)
(* The two detectors on creation transactions: detectNewToken              *)
(* (tokenDetector.js) and detectNewTokens (the analyzer), each applied to  *)
(* the logs of one transaction, in any order the poll may deliver them.    *)
(* The pool holds the logs of the contract 0xaa01 and logs emitted by the  *)
(* helper contract of the platform.                                        *)
(***************************************************************************)
CreationPool ==
  { Log("0xaa01", ZERO_ADDRESS, FOUR_MEME_ADDRESS, 1000000, 0, "0xa1"),
    Log("0xaa01", FOUR_MEME_ADDRESS, "0xBEEF", 500, 1, "0xa1"),
    Log("0xaa01", FOUR_MEME_ADDRESS, "0xCAFE", 999500, 2, "0xa1"),
    Log("0xaa01", "0xBEEF", FOUR_MEME_ADDRESS, 500, 3, "0xa1"),
    Log(FOUR_MEME_HELPER, ZERO_ADDRESS, FOUR_MEME_ADDRESS, 1000000, 4, "0xa1"),
    Log(FOUR_MEME_HELPER, FOUR_MEME_ADDRESS, "0xBEEF", 1000000, 5, "0xa1"),
    Log("0xaa01", ZERO_ADDRESS, "0xCAFE", 1000, 6, "0xa1") }

DetectorStep ==
  /\ last = NoOp
  /\ blocks < MaxDetectorCalls
  /\ \E txLogs \in InjSeqs(CreationPool, MaxCreationLogs), probe \in Probes :
       \E r \in {detectNewToken(txLogs, "0xa1", seenTokens, probe)} :
         /\ blocks' = blocks + 1
         /\ seenTokens' = r.seenTokens
         /\ last' = [op |-> "detectNewToken", txLogs |-> txLogs, txHash |-> "0xa1",
                     probe |-> probe, before |-> seenTokens]
  /\ UNCHANGED <<db, detections, globalFilter, liveFilters, filtersCreated,
                 handlers, delivered, applied, proc, queue, queueLog>>

AnalyzerDetectorStep ==
  /\ last = NoOp
  /\ blocks < MaxDetectorCalls
  /\ \E txLogs \in InjSeqs(CreationPool, MaxCreationLogs), probe \in Probes :
       \E r \in {detectNewTokens(SelectSeq(txLogs, IsMintToFourMeme), txLogs, "0xa1",
                                 seenTokens, probe)} :
         /\ blocks' = blocks + 1
         /\ seenTokens' = r.seen
         /\ last' = [op |-> "detectNewTokens", txLogs |-> txLogs, txHash |-> "0xa1",
                     probe |-> probe, before |-> seenTokens]
  /\ UNCHANGED <<db, detections, globalFilter, liveFilters, filtersCreated,
                 handlers, delivered, applied, proc, queue, queueLog>>

SpecDetectors == Init /\ [][DetectorStep \/ AnalyzerDetectorStep \/ Return]_vars

\* The tokens a detector call put into seenTokens.
Inserted == DOMAIN seenTokens \ DOMAIN last.before

(***************************************************************************)
(* C23.  The creator of a token a detector inserted is the destination of  *)
(* the log with the highest log index among the logs of that contract in   *)
(* the transaction, in whatever order the logs came, for detectNewToken    *)
(* and for detectNewTokens.                                                *)
(***************************************************************************)
C23_CreatorIsLastLog ==
  (last.op \in {"detectNewToken", "detectNewTokens"})
  =>
    \A T \in Inserted :
      \E i \in DOMAIN last.txLogs :
        /\ ToLower(last.txLogs[i].address) = T
        /\ \A j \in DOMAIN last.txLogs :
             ToLower(last.txLogs[j].address) = T
               => last.txLogs[j].logIndex <= last.txLogs[i].logIndex
        /\ ToLower(seenTokens[T].creator) = ToLower(last.txLogs[i].to)

(***************************************************************************)
(* C24.  A contract a detector inserts into seenTokens has, among the logs *)
(* of the transaction, a transfer of that contract to the platform address *)
(* and a log of that contract whose source is the zero address; a deposit  *)
(* to the platform without a mint in the transaction inserts nothing.      *)
(***************************************************************************)
C24_MintAndDeposit ==
  (last.op \in {"detectNewToken", "detectNewTokens"})
  =>
    \A T \in Inserted :
      /\ \E i \in DOMAIN last.txLogs :
           /\ ToLower(last.txLogs[i].address) = T
           /\ ToLower(last.txLogs[i].to) = ToLower(FOUR_MEME_ADDRESS)
      /\ \E j \in DOMAIN last.txLogs :
           /\ ToLower(last.txLogs[j].address) = T
           /\ last.txLogs[j].from = ZERO_ADDRESS

\* A detection whose mint log and deposit log are two different logs: the
\* mint goes to a wallet, a later transfer reaches the platform.
C24_Witness ==
  /\ last.op = "detectNewToken"
  /\ \E T \in Inserted :
       /\ \E j \in DOMAIN last.txLogs :
            /\ ToLower(last.txLogs[j].address) = T
            /\ last.txLogs[j].from = ZERO_ADDRESS
       /\ \A i \in DOMAIN last.txLogs :
            (ToLower(last.txLogs[i].address) = T /\ last.txLogs[i].from = ZERO_ADDRESS)
              => ToLower(last.txLogs[i].to) # ToLower(FOUR_MEME_ADDRESS)

(***************************************************************************)
(* C25.  A contract of INFRASTRUCTURE_CONTRACTS is never a key of          *)
(* seenTokens, whichever detector ran and whatever the logs of the         *)
(* transaction show, the mint and the deposit of that contract included.   *)
(***************************************************************************)
C25_InfrastructureNeverInserted ==
  \A T \in INFRASTRUCTURE_CONTRACTS : T \notin DOMAIN seenTokens

(***************************************************************************)
(* groupLogsByTransaction applied to the logs of a block: up to            *)
(* MaxGroupLogs distinct logs of three transactions, interleaved in any    *)
(* order.                                                                  *)
(***************************************************************************)
GroupPool ==
  { Log("0xaa01", ZERO_ADDRESS, FOUR_MEME_ADDRESS, 1000000, 0, "0xa1"),
    Log("0xaa01", FOUR_MEME_ADDRESS, "0xCAFE", 500, 1, "0xa1"),
    Log("0xaa01", FOUR_MEME_ADDRESS, "0xBEEF", 300, 0, "0xa2"),
    Log("0xaa01", "0xBEEF", FOUR_MEME_ADDRESS, 300, 1, "0xa2"),
    Log("0xbb02", ZERO_ADDRESS, FOUR_MEME_ADDRESS, 1000000, 0, "0xa3") }

GroupStep ==
  /\ last = NoOp
  /\ \E logs \in InjSeqs(GroupPool, MaxGroupLogs) :
       last' = [op |-> "groupLogsByTransaction", logs |-> logs,
                result |-> groupLogsByTransaction(logs)]
  /\ UNCHANGED <<seenTokens, db, detections, blocks, globalFilter, liveFilters,
                 filtersCreated, handlers, delivered, applied, proc, queue, queueLog>>

SpecGroup == Init /\ [][GroupStep \/ Return]_vars

\* The places <<g, k>> of the result at which the log stands.
PlacesOf(result, log) ==
  {p \in UNION {{<<g, k>> : k \in DOMAIN result[g].txLogs} : g \in DOMAIN result} :
     result[p[1]].txLogs[p[2]] = log}

\* The position of a log in the input (the logs of a block are distinct).
PositionOf(logs, log) == CHOOSE i \in DOMAIN logs : logs[i] = log

(***************************************************************************)
(* C26.  groupLogsByTransaction is total and order-preserving: the keys of *)
(* the result are distinct, every input log stands at exactly one place of *)
(* the result, in the group keyed by its transaction hash, the groups hold *)
(* nothing else, and the logs of a group are in their input order.         *)
(***************************************************************************)
C26_GroupingTotalOrdered ==
  (last.op = "groupLogsByTransaction")
  =>
    /\ \A g, h \in DOMAIN last.result :
         last.result[g].txHash = last.result[h].txHash => g = h
    /\ \A i \in DOMAIN last.logs :
         /\ Cardinality(PlacesOf(last.result, last.logs[i])) = 1
         /\ \A p \in PlacesOf(last.result, last.logs[i]) :
              last.result[p[1]].txHash = last.logs[i].transactionHash
    /\ \A g \in DOMAIN last.result :
         /\ \A k \in DOMAIN last.result[g].txLogs :
              \E i \in DOMAIN last.logs : last.logs[i] = last.result[g].txLogs[k]
         /\ \A k, l \in DOMAIN last.result[g].txLogs :
              k < l => PositionOf(last.logs, last.result[g].txLogs[k])
                         < PositionOf(last.logs, last.result[g].txLogs[l])

\* A block whose transactions are interleaved: a log of another transaction
\* stands between two logs of one transaction.
C26_Witness ==
  /\ last.op = "groupLogsByTransaction"
  /\ Len(last.result) >= 2
  /\ \E i, j, k \in DOMAIN last.logs :
       /\ i < j /\ j < k
       /\ last.logs[i].transactionHash = last.logs[k].transactionHash
       /\ last.logs[j].transactionHash # last.logs[i].transactionHash

(***************************************************************************)
(* analyzeToken (tokenAnalyzer.js): the risk rules over a token record.    *)
(* A flag is modelled by its kind and the number its text carries.         *)
(***************************************************************************)
\* BigInt division: the quotient truncated toward zero (b > 0).
TruncDiv(a, b) == IF a >= 0 THEN a \div b ELSE -((-a) \div b)

\* The exceptions of the function: BigInt division by a totalSupply of "0"
\* in devPercentage (devHoldings, a string, is truthy whenever present), and
\* BigInt(undefined) in the test of a creator's sell when totalSupply is
\* missing.
AnalysisThrows(tokenInfo) ==
  \/ tokenInfo.hasDevHoldings /\ tokenInfo.totalSupply = 0
  \/ /\ tokenInfo.totalSupply = NoValue
     /\ \E i \in DOMAIN tokenInfo.trades :
          tokenInfo.trades[i].type = "sell" /\ tokenInfo.trades[i].isCreator

\* devPercentage: BigInt(devHoldings) * 100n / BigInt(totalSupply), "0" when
\* either is missing.
DevPercentage(tokenInfo) ==
  IF tokenInfo.hasDevHoldings /\ tokenInfo.totalSupply # NoValue
  THEN TruncDiv(tokenInfo.devHoldings * 100, tokenInfo.totalSupply)
  ELSE 0

\* trades.some(t => sell && isCreator && amount > totalSupply * 10n / 100n)
LargeCreatorSell(tokenInfo) ==
  \E i \in DOMAIN tokenInfo.trades :
    /\ tokenInfo.trades[i].type = "sell"
    /\ tokenInfo.trades[i].isCreator
    /\ tokenInfo.trades[i].amount > TruncDiv(tokenInfo.totalSupply * 10, 100)

\* sellCount / buyCount > 2 with both counts positive.
HighSellBuyRatio(tokenInfo) ==
  /\ tokenInfo.sellCount > 0
  /\ tokenInfo.buyCount > 0
  /\ tokenInfo.sellCount > 2 * tokenInfo.buyCount

\* The recipients with more than 3 entries in transfersByRecipient.
MultiTransferRecipients(tokenInfo) ==
  IF tokenInfo.hasWalletTransfers
  THEN {addr \in {tokenInfo.walletTransfers[i].to : i \in DOMAIN tokenInfo.walletTransfers} :
          Cardinality({i \in DOMAIN tokenInfo.walletTransfers :
                         tokenInfo.walletTransfers[i].to = addr}) > 3}
  ELSE {}

\* The quickTrades filter: timeSinceFirstBuy truthy and below 300.
QuickTrades(tokenInfo) ==
  SelectSeq(tokenInfo.crossPlatformTrades, LAMBDA t :
              t.timeSinceFirstBuy # 0 /\ t.timeSinceFirstBuy < 300)

Flag(kind, n) == [kind |-> kind, n |-> n]

\* One rule: the flags it pushes and the points it adds when it fires.
Rule(fires, kind, n, points) ==
  IF fires THEN [flags |-> <<Flag(kind, n)>>, points |-> points]
  ELSE [flags |-> <<>>, points |-> 0]

\* The cross-platform block: a flag with the number of records, then the
\* rapid-trades flag and 3 points when quickTrades is not empty.
CrossPlatformRule(tokenInfo) ==
  IF tokenInfo.hasCrossPlatformTrades /\ Len(tokenInfo.crossPlatformTrades) > 0
  THEN [flags |-> <<Flag("crossPlatform", Len(tokenInfo.crossPlatformTrades))>>
                    \o Rule(Len(QuickTrades(tokenInfo)) > 0, "rapidCrossPlatform",
                            Len(QuickTrades(tokenInfo)), 3).flags,
        points |-> Rule(Len(QuickTrades(tokenInfo)) > 0, "rapidCrossPlatform",
                        Len(QuickTrades(tokenInfo)), 3).points]
  ELSE [flags |-> <<>>, points |-> 0]

\* The final if/else chain, with the first threshold strict.
RiskLevel_strict(riskScore) ==
  IF riskScore > 7 THEN "high"
  ELSE IF riskScore >= 4 THEN "medium"
  ELSE IF riskScore > 0 THEN "low"
  ELSE "none"

\* The final if/else chain on result.riskScore.
RiskLevel(riskScore) ==
  IF riskScore >= 7 THEN "high"
  ELSE IF riskScore >= 4 THEN "medium"
  ELSE IF riskScore > 0 THEN "low"
  ELSE "none"

NoAnalysis(tokenInfo) ==
  [threw |-> TRUE, tokenAddress |-> tokenInfo.tokenAddress, flags |-> <<>>,
   riskScore |-> 0, riskLevel |-> "none", multiTransferRecipients |-> {}]

\* The result object once the five rules, in the order of the code, have
\* pushed their flags and added their points.
Analysis(tokenInfo, r1, r2, r3, r4, r5) ==
  [threw |-> FALSE, tokenAddress |-> tokenInfo.tokenAddress,
   flags |-> r1.flags \o r2.flags \o r3.flags \o r4.flags \o r5.flags,
   riskScore |-> r1.points + r2.points + r3.points + r4.points + r5.points,
   riskLevel |-> RiskLevel(r1.points + r2.points + r3.points + r4.points + r5.points),
   multiTransferRecipients |-> MultiTransferRecipients(tokenInfo)]

analyzeToken(tokenInfo) ==
  IF AnalysisThrows(tokenInfo) THEN NoAnalysis(tokenInfo)
  ELSE Analysis(tokenInfo,
         Rule(DevPercentage(tokenInfo) > 50, "concentration", DevPercentage(tokenInfo), 2),
         Rule(LargeCreatorSell(tokenInfo), "largeCreatorSell", 0, 3),
         Rule(HighSellBuyRatio(tokenInfo), "sellBuyRatio", 0, 2),
         Rule(MultiTransferRecipients(tokenInfo) # {}, "multiTransfer",
              Cardinality(MultiTransferRecipients(tokenInfo)),
              Cardinality(MultiTransferRecipients(tokenInfo))),
         CrossPlatformRule(tokenInfo))

\* A call, variant in which the function clears the wallet transfers it
\* has grouped.
analyzeTokenCall_consuming(tokenInfo) ==
  [result |-> analyzeToken(tokenInfo),
   tokenInfo |-> [tokenInfo EXCEPT !.walletTransfers = <<>>]]

\* A call of analyzeToken: the value returned and the argument object after
\* the call.  The function assigns to `result` and to the local
\* transfersByRecipient only; no statement writes a property of tokenInfo.
analyzeTokenCall(tokenInfo) ==
  [result |-> analyzeToken(tokenInfo), tokenInfo |-> tokenInfo]

\* What processCrossPlatformTrade stores as timeSinceFirstBuy for a trade
\* made elapsedMs after the first buy of its source: whole seconds, then
\* Math.floor(seconds / 60).
StoredTimeSinceFirstBuy(elapsedMs) == (elapsedMs \div 1000) \div 60

CrossPlatformEntry(elapsedMs) ==
  [from |-> "0xbeef", to |-> GMGN_ROUTER, platform |-> "gmgn.ai", amount |-> 10,
   txHash |-> "0xa5", timeSinceFirstBuy |-> StoredTimeSinceFirstBuy(elapsedMs)]

(***************************************************************************)
(* The snapshots analyzeToken is applied to: a total supply (missing, 0 or *)
(* 200), the creator's holding, a trade history with its counts, wallet    *)
(* transfers, and cross-platform records made a given time after the       *)
(* source's first buy.                                                     *)
(***************************************************************************)
AnalyzeSupplies == {NoValue, 0, 200}

AnalyzeHoldings ==
  {[has |-> FALSE, v |-> 0]}
    \cup {[has |-> TRUE, v |-> h] : h \in {-100, 0, 100, 101, 102, 150}}

AnalyzeTrades ==
  { <<>>,
    << TradeRecord("buy", "0xbeef", 50, "0xa3", FALSE) >>,
    << TradeRecord("buy", "0xbeef", 50, "0xa3", FALSE),
       TradeRecord("sell", "0xcafe", 20, "0xa4", TRUE) >>,
    << TradeRecord("buy", "0xbeef", 50, "0xa3", FALSE),
       TradeRecord("sell", "0xcafe", 21, "0xa4", TRUE) >>,
    << TradeRecord("buy", "0xbeef", 50, "0xa3", FALSE),
       TradeRecord("sell", "0xbeef", 10, "0xa4", FALSE),
       TradeRecord("sell", "0xbeef", 10, "0xa5", FALSE) >>,
    << TradeRecord("buy", "0xbeef", 50, "0xa3", FALSE),
       TradeRecord("sell", "0xbeef", 30, "0xa4", FALSE),
       TradeRecord("sell", "0xbeef", 10, "0xa5", FALSE),
       TradeRecord("sell", "0xbeef", 10, "0xa6", FALSE) >>,
    << TradeRecord("buy", "0xbeef", 50, "0xa3", FALSE),
       TradeRecord("sell", "0xcafe", 21, "0xa4", TRUE),
       TradeRecord("sell", "0xbeef", 10, "0xa5", FALSE),
       TradeRecord("sell", "0xbeef", 10, "0xa6", FALSE) >> }

TransfersTo(addr, n) ==
  [i \in 1..n |-> [from |-> "0xdead", to |-> addr, amount |-> 10, txHash |-> "0xa7"]]

AnalyzeTransfers ==
  { [has |-> FALSE, v |-> <<>>],
    [has |-> TRUE, v |-> <<>>],
    [has |-> TRUE, v |-> TransfersTo("0xf00d", 3)],
    [has |-> TRUE, v |-> TransfersTo("0xf00d", 4)],
    [has |-> TRUE, v |-> TransfersTo("0xf00d", 4) \o TransfersTo("0xbeef", 4)] }

\* Times, in milliseconds, between the first buy of the source and each
\* cross-platform trade of the token.
AnalyzeElapsed ==
  { <<>>, <<30000>>, <<120000>>, <<299999>>, <<300000>>, <<600000>>, <<18000000>>,
    <<30000, 600000>> }

CountType(trades, type) == Cardinality({i \in DOMAIN trades : trades[i].type = type})

Snapshot(supply, holding, trades, transfers, elapsed) ==
  [tokenAddress |-> "0xaa01", name |-> "name", symbol |-> "symbol",
   creator |-> "0xCAFE", totalSupply |-> supply,
   hasDevHoldings |-> holding.has, devHoldings |-> holding.v,
   trades |-> trades,
   buyCount |-> CountType(trades, "buy"), sellCount |-> CountType(trades, "sell"),
   hasWalletTransfers |-> transfers.has, walletTransfers |-> transfers.v,
   hasCrossPlatformTrades |-> elapsed # <<>>,
   crossPlatformTrades |-> [i \in DOMAIN elapsed |-> CrossPlatformEntry(elapsed[i])]]

\* analyzeToken called on a snapshot, and once more on the same object.
AnalyzeStep ==
  /\ last = NoOp
  /\ \E supply \in AnalyzeSupplies, holding \in AnalyzeHoldings, trades \in AnalyzeTrades,
        transfers \in AnalyzeTransfers, elapsed \in AnalyzeElapsed :
       \E call \in {analyzeTokenCall(Snapshot(supply, holding, trades, transfers, elapsed))} :
         last' = [op |-> "analyzeToken",
                  tokenInfo |-> Snapshot(supply, holding, trades, transfers, elapsed),
                  elapsed |-> elapsed,
                  result |-> call.result,
                  after |-> call.tokenInfo,
                  again |-> analyzeTokenCall(call.tokenInfo).result]
  /\ UNCHANGED <<seenTokens, db, detections, blocks, globalFilter, liveFilters,
                 filtersCreated, handlers, delivered, applied, proc, queue, queueLog>>

SpecRisk == Init /\ [][AnalyzeStep \/ Return]_vars

\* The points the spec gives a flag of the result.
PointsOf(flag) ==
  CASE flag.kind = "concentration" -> 2
    [] flag.kind = "largeCreatorSell" -> 3
    [] flag.kind = "sellBuyRatio" -> 2
    [] flag.kind = "multiTransfer" -> flag.n
    [] flag.kind = "rapidCrossPlatform" -> 3
    [] OTHER -> 0

RECURSIVE SumPoints(_)
SumPoints(flags) ==
  IF flags = <<>> THEN 0 ELSE PointsOf(Head(flags)) + SumPoints(Tail(flags))

HasFlag(result, kind) == \E i \in DOMAIN result.flags : result.flags[i].kind = kind

(***************************************************************************)
(* C27.  The riskScore analyzeToken returns is the sum of the points of    *)
(* the rules that fired (2 concentration, 3 large creator sell, 2          *)
(* sell/buy ratio, 1 per multi-transfer recipient, 3 rapid cross-platform  *)
(* trade), and riskLevel is high from 7, medium from 4 to 6, low from 1 to *)
(* 3 and none at 0.                                                        *)
(***************************************************************************)
C27_ScoreAndLevel ==
  (last.op = "analyzeToken" /\ ~last.result.threw)
  =>
    /\ last.result.riskScore = SumPoints(last.result.flags)
    /\ HasFlag(last.result, "multiTransfer")
         => \E i \in DOMAIN last.result.flags :
              /\ last.result.flags[i].kind = "multiTransfer"
              /\ last.result.flags[i].n = Cardinality(last.result.multiTransferRecipients)
    /\ last.result.riskLevel = "high" <=> last.result.riskScore >= 7
    /\ last.result.riskLevel = "medium"
         <=> (4 <= last.result.riskScore /\ last.result.riskScore < 7)
    /\ last.result.riskLevel = "low"
         <=> (0 < last.result.riskScore /\ last.result.riskScore < 4)
    /\ last.result.riskLevel = "none" <=> last.result.riskScore = 0

\* Concentration, a large creator sell and the ratio rule fire together:
\* the score is exactly 7, the lowest "high".
C27_Witness ==
  /\ last.op = "analyzeToken"
  /\ ~last.result.threw
  /\ last.result.riskScore = 7
  /\ Len(last.result.flags) = 3
  /\ last.result.riskLevel = "high"

\* The snapshot of the call without the creator's holding / without its
\* cross-platform records: what the other rules alone make of it.
WithoutHolding(tokenInfo) == [tokenInfo EXCEPT !.hasDevHoldings = FALSE, !.devHoldings = 0]

WithoutCrossPlatform(tokenInfo) ==
  [tokenInfo EXCEPT !.hasCrossPlatformTrades = FALSE, !.crossPlatformTrades = <<>>]

(***************************************************************************)
(* C28.  For a record with a holding and a positive total supply,          *)
(* analyzeToken raises the concentration flag and adds 2 to the score      *)
(* exactly when 2 * devHoldings > totalSupply.                             *)
(***************************************************************************)
C28_ConcentrationAboveHalf ==
  (/\ last.op = "analyzeToken"
   /\ ~last.result.threw
   /\ last.tokenInfo.hasDevHoldings
   /\ last.tokenInfo.totalSupply > 0)
  =>
    /\ HasFlag(last.result, "concentration")
         <=> 2 * last.tokenInfo.devHoldings > last.tokenInfo.totalSupply
    /\ last.result.riskScore - analyzeToken(WithoutHolding(last.tokenInfo)).riskScore
         = IF 2 * last.tokenInfo.devHoldings > last.tokenInfo.totalSupply THEN 2 ELSE 0

(***************************************************************************)
(* C29.  analyzeToken adds 3 to the score exactly when at least one        *)
(* cross-platform record of the token was made less than 5 minutes after   *)
(* the first buy of its source, a trade made within the first minute       *)
(* included.                                                               *)
(***************************************************************************)
C29_RapidCrossPlatform ==
  (last.op = "analyzeToken" /\ ~last.result.threw)
  =>
    /\ HasFlag(last.result, "rapidCrossPlatform")
         <=> \E i \in DOMAIN last.elapsed : last.elapsed[i] < 300 * 1000
    /\ last.result.riskScore - analyzeToken(WithoutCrossPlatform(last.tokenInfo)).riskScore
         = IF \E i \in DOMAIN last.elapsed : last.elapsed[i] < 300 * 1000 THEN 3 ELSE 0

IsPrefix(s, t) == Len(s) <= Len(t) /\ \A i \in DOMAIN s : s[i] = t[i]

\* One step keeps, for every tracked token, the three stored sequences as
\* prefixes of the sequences stored afterwards.
AppendOnlyStep ==
  \A T \in DOMAIN seenTokens :
    /\ T \in DOMAIN seenTokens'
    /\ IsPrefix(seenTokens[T].trades, seenTokens'[T].trades)
    /\ IsPrefix(seenTokens[T].walletTransfers, seenTokens'[T].walletTransfers)
    /\ IsPrefix(seenTokens[T].crossPlatformTrades, seenTokens'[T].crossPlatformTrades)

(***************************************************************************)
(* C31.  trades, walletTransfers and crossPlatformTrades of a tracked      *)
(* token are append-only: in every step of the block watcher the sequence  *)
(* stored in seenTokens before the step is a prefix of the one stored      *)
(* after it.                                                               *)
(***************************************************************************)
C31_AppendOnly == [][AppendOnlyStep]_vars

(***************************************************************************)
(* Letter case of addresses.  The node delivers addresses in checksum      *)
(* (mixed) case; the same block is processed by processTokenLogs as        *)
(* delivered and, for comparison, with every address in lower case.        *)
(***************************************************************************)
CaseBatches ==
  { << Log("0xAA01", ZERO_ADDRESS, FOUR_MEME_ADDRESS, 1000000, 0, "0xa1"),
       Log("0xAA01", FOUR_MEME_ADDRESS, "0xCAFE", 500, 1, "0xa1") >>,
    << Log("0xAA01", FOUR_MEME_ADDRESS, "0xBEEF", 300, 0, "0xa2") >>,
    << Log("0xAA01", "0xBEEF", FOUR_MEME_ADDRESS, 100, 0, "0xa3") >>,
    << Log("0xAA01", "0xBEEF", "0x2B6E", 50, 0, "0xa4") >>,
    << Log("0xAA01", "0xCAFE", "0xF00D", 20, 0, "0xa5") >>,
    << Log("0xAA01", "0xBEEF", FOUR_MEME_HELPER, 10, 0, "0xa6") >> }

LowerLog(log) ==
  [log EXCEPT !.address = ToLower(@), !.from = ToLower(@), !.to = ToLower(@)]

LowerLogs(logs) == [i \in DOMAIN logs |-> LowerLog(logs[i])]

CaseLogsDone(logs, probe, receipt, dbDown, r, other) ==
  /\ blocks' = blocks + 1
  /\ seenTokens' = r.seen
  /\ db' = r.db
  /\ last' = [op |-> "processTokenLogs", logs |-> logs, probe |-> probe,
              receipt |-> receipt, dbDown |-> dbDown, before |-> seenTokens,
              dbBefore |-> db, threw |-> r.threw, updatedTokens |-> r.updatedTokens,
              other |-> [seen |-> other.seen, threw |-> other.threw,
                         updatedTokens |-> other.updatedTokens]]

\* processTokenLogs on a block, delivered in checksum case or in lower case;
\* `other` is what the call makes of the same block in the other case.
CaseLogsStep ==
  /\ last = NoOp
  /\ blocks < MaxCaseBlocks
  /\ \E batch \in CaseBatches, lower \in BOOLEAN, dbDown \in BOOLEAN :
      \E probe \in ProbesFor(batch), receipt \in ReceiptsFor(batch) :
        CaseLogsDone(IF lower THEN LowerLogs(batch) ELSE batch, probe, receipt, dbDown,
          processTokenLogs(IF lower THEN LowerLogs(batch) ELSE batch,
                           seenTokens, db, probe, receipt, dbDown),
          processTokenLogs(IF lower THEN batch ELSE LowerLogs(batch),
                           seenTokens, db, probe, receipt, dbDown))
  /\ UNCHANGED <<detections, globalFilter, liveFilters, filtersCreated,
                 handlers, delivered, applied, proc, queue, queueLog>>

SpecCase == Init /\ [][CaseLogsStep \/ Restart \/ Return]_vars

\* What the classifier made of the logs of a token.
Classified(tokenInfo) ==
  [hasTrades |-> tokenInfo.hasTrades, trades |-> tokenInfo.trades,
   buyCount |-> tokenInfo.buyCount, sellCount |-> tokenInfo.sellCount,
   uniqueBuyers |-> tokenInfo.uniqueBuyers, uniqueSellers |-> tokenInfo.uniqueSellers,
   totalBuyVolume |-> tokenInfo.totalBuyVolume,
   totalSellVolume |-> tokenInfo.totalSellVolume,
   hasDevHoldings |-> tokenInfo.hasDevHoldings, devHoldings |-> tokenInfo.devHoldings,
   walletTransfers |-> tokenInfo.walletTransfers,
   crossPlatformTrades |-> tokenInfo.crossPlatformTrades]

(***************************************************************************)
(* C32.  Every key of seenTokens is a lowercase address, and the           *)
(* classification of a block does not depend on the letter case of the     *)
(* addresses in its logs: the block delivered in checksum case and the     *)
(* block delivered in lower case leave the same keys, the same trade       *)
(* statistics and records for every token, and the same updated set.       *)
(***************************************************************************)
C32_CaseInsensitive ==
  /\ \A T \in DOMAIN seenTokens : ToLower(T) = T
  /\ (last.op = "processTokenLogs")
     =>
       /\ last.threw = last.other.threw
       /\ DOMAIN seenTokens = DOMAIN last.other.seen
       /\ last.updatedTokens = last.other.updatedTokens
       /\ \A T \in DOMAIN seenTokens \cap DOMAIN last.other.seen :
            Classified(seenTokens[T]) = Classified(last.other.seen[T])

\* A block delivered in checksum case was classified: a trade was recorded
\* for a log whose contract, source and destination all came in mixed case.
C32_Witness ==
  /\ last.op = "processTokenLogs"
  /\ \E i \in DOMAIN last.logs :
       /\ last.logs[i].address # ToLower(last.logs[i].address)
       /\ last.logs[i].from # ToLower(last.logs[i].from)
       /\ last.logs[i].to # ToLower(last.logs[i].to)
  /\ \E T \in DOMAIN last.before :
       Len(seenTokens[T].trades) > Len(last.before[T].trades)

(***************************************************************************)
(* checkForTokenTrades as processBlock calls it, on a transaction with one *)
(* log of the pool; `call` is what processTokenTrades answers for that log *)
(* and the record stored for its contract.                                 *)
(***************************************************************************)
CheckForTokenTradesStep ==
  /\ last = NoOp
  /\ blocks < MaxTradeChecks
  /\ \E log \in TradePool, receipt \in Receipts :
       /\ ToLower(log.address) \in DOMAIN seenTokens
       /\ \E t \in {checkForTokenTrades(<<log>>, log.transactionHash, seenTokens, receipt)} :
            /\ seenTokens' = t.seen
            /\ last' = [op |-> "checkForTokenTrades", log |-> log, receipt |-> receipt,
                        before |-> seenTokens, threw |-> t.threw,
                        updatedTokenAddresses |-> t.updatedTokenAddresses,
                        call |-> processTokenTrades(log, log.transactionHash,
                                                    seenTokens[ToLower(log.address)], receipt)]
  /\ blocks' = blocks + 1
  /\ UNCHANGED <<db, detections, globalFilter, liveFilters, filtersCreated,
                 handlers, delivered, applied, proc, queue, queueLog>>

SpecTrades == Init /\ [][DetectorStep \/ CheckForTokenTradesStep \/ Return]_vars

(***************************************************************************)
(* C33.  For a transfer of a tracked token with a nonzero amount from or   *)
(* to the platform, processTokenTrades called as the block handler calls   *)
(* it does not raise and returns the updated record, and                   *)
(* checkForTokenTrades stores that record and marks the token as updated.  *)
(***************************************************************************)
C33_TradeReturned ==
  (/\ last.op = "checkForTokenTrades"
   /\ last.log.value # NoValue
   /\ last.log.value > 0
   /\ \/ (ToLower(last.log.from) = ToLower(FOUR_MEME_ADDRESS)
          /\ ToLower(last.log.to) \notin FOUR_MEME_RELATED_ADDRESSES)
      \/ (ToLower(last.log.to) = ToLower(FOUR_MEME_ADDRESS)
          /\ ToLower(last.log.from) \notin FOUR_MEME_RELATED_ADDRESSES))
  =>
    /\ ~last.call.threw
    /\ last.call.found
    /\ ~last.threw
    /\ seenTokens[ToLower(last.log.address)] = last.call.tokenInfo
    /\ ToLower(last.log.address) \in last.updatedTokenAddresses

(***************************************************************************)
(* C34.  Right after processTokenLogs has processed the batch in which a   *)
(* token was detected, that token has buyCount = 1, sellCount = 0, no      *)
(* seller and no TradeRecord: the logs of its creation transaction are not *)
(* counted as trades.                                                      *)
(***************************************************************************)
C34_CreationNotTraded ==
  (last.op = "processTokenLogs" /\ ~last.threw)
  =>
    \A T \in DOMAIN seenTokens \ DOMAIN last.before :
      (\A i \in DOMAIN last.logs :
         ToLower(last.logs[i].address) = T
           => last.logs[i].transactionHash = seenTokens[T].transactionHash)
      =>
        /\ seenTokens[T].buyCount = 1
        /\ seenTokens[T].sellCount = 0
        /\ seenTokens[T].uniqueSellers = {}
        /\ seenTokens[T].trades = <<>>

RECURSIVE SumAmounts(_, _)
\* The sum of the amounts of the records of one type in trades.
SumAmounts(trades, type) ==
  IF trades = <<>> THEN 0
  ELSE (IF Head(trades).type = type THEN Head(trades).amount ELSE 0)
         + SumAmounts(Tail(trades), type)

(***************************************************************************)
(* C35.  After any sequence of batches processed by processTokenLogs,      *)
(* every tracked token with initialised trade tracking has buyCount = 1 +  *)
(* number of buy records, sellCount = number of sell records,              *)
(* totalBuyVolume = totalSupply + sum of the buy amounts and               *)
(* totalSellVolume = sum of the sell amounts of its trades.                *)
(***************************************************************************)
C35_CountsMatchTrades ==
  \A T \in DOMAIN seenTokens :
    seenTokens[T].hasTrades =>
      /\ seenTokens[T].buyCount = 1 + CountType(seenTokens[T].trades, "buy")
      /\ seenTokens[T].sellCount = CountType(seenTokens[T].trades, "sell")
      /\ seenTokens[T].totalBuyVolume
           = seenTokens[T].totalSupply + SumAmounts(seenTokens[T].trades, "buy")
      /\ seenTokens[T].totalSellVolume = SumAmounts(seenTokens[T].trades, "sell")

(***************************************************************************)
(* One transaction that creates several tokens: the logs of 0xaa01 and of  *)
(* 0xbb02, all of transaction 0xa1, in any order, handled by processBlock  *)
(* (part_001) and by processTokenLogs (tokenProcessor.js).                 *)
(***************************************************************************)
MultiPool ==
  { Log("0xaa01", ZERO_ADDRESS, FOUR_MEME_ADDRESS, 1000000, 0, "0xa1"),
    Log("0xaa01", FOUR_MEME_ADDRESS, "0xCAFE", 500, 1, "0xa1"),
    Log("0xbb02", ZERO_ADDRESS, FOUR_MEME_ADDRESS, 1000000, 2, "0xa1"),
    Log("0xbb02", FOUR_MEME_ADDRESS, "0xBEEF", 500, 3, "0xa1") }

MultiBlockStep ==
  /\ last = NoOp
  /\ blocks < MaxMultiBlocks
  /\ \E logs \in InjSeqs(MultiPool, MaxMultiLogs) \ {<<>>}, dbDown \in BOOLEAN :
      \E probe \in ProbesFor(logs), receipt \in ReceiptsFor(logs) :
        \E r \in {processBlock(logs, seenTokens, db, globalFilter, liveFilters,
                               filtersCreated, probe, receipt, dbDown, TRUE)} :
          /\ blocks' = blocks + 1
          /\ seenTokens' = r.seen
          /\ db' = r.db
          /\ globalFilter' = r.globalFilter
          /\ liveFilters' = r.liveFilters
          /\ filtersCreated' = r.filtersCreated
          /\ last' = [op |-> "processBlock", logs |-> logs, probe |-> probe,
                      receipt |-> receipt, dbDown |-> dbDown, before |-> seenTokens,
                      dbBefore |-> db, updatedTokens |-> r.updatedTokens]
          /\ UNCHANGED <<detections, handlers, delivered, applied, proc, queue, queueLog>>

MultiLogsStep ==
  /\ last = NoOp
  /\ blocks < MaxMultiBlocks
  /\ \E logs \in InjSeqs(MultiPool, MaxMultiLogs) \ {<<>>}, dbDown \in BOOLEAN :
      \E probe \in ProbesFor(logs), receipt \in ReceiptsFor(logs) :
        \E r \in {processTokenLogs(logs, seenTokens, db, probe, receipt, dbDown)} :
          /\ blocks' = blocks + 1
          /\ seenTokens' = r.seen
          /\ db' = r.db
          /\ last' = [op |-> "processTokenLogs", logs |-> logs, probe |-> probe,
                      receipt |-> receipt, dbDown |-> dbDown, before |-> seenTokens,
                      dbBefore |-> db, updatedTokens |-> r.updatedTokens]
          /\ UNCHANGED <<detections, globalFilter, liveFilters, filtersCreated,
                        handlers, delivered, applied, proc, queue, queueLog>>

SpecMulti == Init /\ [][MultiBlockStep \/ MultiLogsStep \/ Return]_vars

(***************************************************************************)
(* C36.  When the logs of one transaction hold the mint and the deposit to *)
(* the platform for several contracts, every one of these contracts is a   *)
(* key of seenTokens once the handler has processed the transaction.       *)
(***************************************************************************)
C36_AllCreationsTracked ==
  (last.op \in {"processBlock", "processTokenLogs"})
  =>
    \A i \in DOMAIN last.logs :
      IsMintToFourMeme(last.logs[i])
        => ToLower(last.logs[i].address) \in DOMAIN seenTokens

(***************************************************************************)
(* TokenAnalysisQueue.  `queue` is this.queue, a Map kept as the sequence  *)
(* of its entries in insertion order (the tokenInfo an entry carries plays *)
(* no part in the queueing and is left out); queueLog is the history of    *)
(* the calls made on the queue.                                            *)
(***************************************************************************)
analysisDelay == 10

QueueTokens == {"0xaa01", "0xbb02"}

CreationBlocks == {1, 2}

CurrentBlocks == {10, 11, 12, 13}

HasEntry(q, tokenAddress) == \E i \in DOMAIN q : q[i].address = tokenAddress

QueueEntry(tokenAddress, creationBlock) ==
  [address |-> tokenAddress, creationBlock |-> creationBlock,
   targetBlock |-> creationBlock + analysisDelay]

\* this.queue.set(tokenAddress, {...}): a present key keeps its place and
\* gets the new value, a new key goes to the end.
enqueueToken(q, tokenAddress, creationBlock) ==
  IF HasEntry(q, tokenAddress)
  THEN [i \in DOMAIN q |->
          IF q[i].address = tokenAddress THEN QueueEntry(tokenAddress, creationBlock)
          ELSE q[i]]
  ELSE Append(q, QueueEntry(tokenAddress, creationBlock))

\* checkForAnalysis, variant that leaves the due entries in the queue.
checkForAnalysis_keep(q, currentBlock) ==
  [tokensToAnalyze |-> SelectSeq(q, LAMBDA data : currentBlock >= data.targetBlock),
   queue |-> q]

\* checkForAnalysis: the entries with currentBlock >= targetBlock are
\* returned, in Map order, and deleted.
checkForAnalysis(q, currentBlock) ==
  [tokensToAnalyze |-> SelectSeq(q, LAMBDA data : currentBlock >= data.targetBlock),
   queue |-> SelectSeq(q, LAMBDA data : ~(currentBlock >= data.targetBlock))]

EnqueueTokenStep ==
  /\ Len(queueLog) < MaxQueueOps
  /\ \E tokenAddress \in QueueTokens, creationBlock \in CreationBlocks :
       /\ queue' = enqueueToken(queue, tokenAddress, creationBlock)
       /\ queueLog' = Append(queueLog, [op |-> "enqueueToken", address |-> tokenAddress,
                                        creationBlock |-> creationBlock])
  /\ UNCHANGED <<seenTokens, db, detections, last, blocks, globalFilter, liveFilters,
                 filtersCreated, handlers, delivered, applied, proc>>

CheckForAnalysisStep ==
  /\ Len(queueLog) < MaxQueueOps
  /\ \E currentBlock \in CurrentBlocks :
       \E r \in {checkForAnalysis(queue, currentBlock)} :
         /\ queue' = r.queue
         /\ queueLog' = Append(queueLog,
                          [op |-> "checkForAnalysis", currentBlock |-> currentBlock,
                           returned |-> {r.tokensToAnalyze[i].address :
                                           i \in DOMAIN r.tokensToAnalyze}])
  /\ UNCHANGED <<seenTokens, db, detections, last, blocks, globalFilter, liveFilters,
                 filtersCreated, handlers, delivered, applied, proc>>

SpecQueue == Init /\ [][EnqueueTokenStep \/ CheckForAnalysisStep]_vars

\* The positions of the history at which the token was enqueued / returned.
EnqueuedAt(a) ==
  {i \in DOMAIN queueLog : queueLog[i].op = "enqueueToken" /\ queueLog[i].address = a}

ReturnedAt(a) ==
  {k \in DOMAIN queueLog : queueLog[k].op = "checkForAnalysis" /\ a \in queueLog[k].returned}

\* The checkForAnalysis calls after position e whose currentBlock has reached
\* creation block b plus the delay of 10 blocks.
DueAt(e, b) ==
  {k \in DOMAIN queueLog :
     k > e /\ queueLog[k].op = "checkForAnalysis" /\ queueLog[k].currentBlock >= b + 10}

(***************************************************************************)
(* C37.  A token enqueued once, with creation block b, is returned by      *)
(* exactly one checkForAnalysis call, the first one after the enqueue      *)
(* whose currentBlock >= b + 10, and by no call with currentBlock < b +    *)
(* 10; once returned it is no longer in the queue, and until then it is.   *)
(***************************************************************************)
C37_ReturnedOnce ==
  \A a \in QueueTokens :
    Cardinality(EnqueuedAt(a)) = 1
    =>
      \E e \in EnqueuedAt(a) :
        /\ \A k \in ReturnedAt(a) : queueLog[k].currentBlock >= queueLog[e].creationBlock + 10
        /\ IF DueAt(e, queueLog[e].creationBlock) = {}
           THEN ReturnedAt(a) = {} /\ HasEntry(queue, a)
           ELSE /\ ReturnedAt(a)
                     = {CHOOSE k \in DueAt(e, queueLog[e].creationBlock) :
                          \A l \in DueAt(e, queueLog[e].creationBlock) : k <= l}
                /\ ~HasEntry(queue, a)

\* A token enqueued once, polled too early, returned by a later call, and
\* polled again after that.
C37_Witness ==
  \E a \in QueueTokens :
    /\ Cardinality(EnqueuedAt(a)) = 1
    /\ \E e \in EnqueuedAt(a), k1, k2, k3 \in DOMAIN queueLog :
         /\ e < k1 /\ k1 < k2 /\ k2 < k3
         /\ queueLog[k1].op = "checkForAnalysis"
         /\ queueLog[k1].currentBlock < queueLog[e].creationBlock + 10
         /\ k2 \in ReturnedAt(a)
         /\ queueLog[k3].op = "checkForAnalysis"
         /\ queueLog[k3].currentBlock >= queueLog[e].creationBlock + 10

(***************************************************************************)
(* getRecentTokenCreations.  `last` holds the running call: the block      *)
(* count asked for, the current block the client reported, the loop's      *)
(* startBlock, and the ranges handed to getHistoricalTokenCreations, which *)
(* passes them on to getLogs as fromBlock / toBlock (both inclusive).      *)
(***************************************************************************)
MAX_BLOCK_RANGE == 2000

RecentBlockCounts == {1000, 2001, 2002, 3000, 4001, 4002, 4003, 6003}

RecentCurrentBlocks == {10000, 10001, 20000}

\* const endBlock = startBlock + MAX_BLOCK_RANGE > currentBlock ? currentBlock : ...
EndBlock(startBlock, currentBlock) ==
  IF startBlock + MAX_BLOCK_RANGE > currentBlock THEN currentBlock
  ELSE startBlock + MAX_BLOCK_RANGE

\* The call up to the first test of the loop; a blockCount within
\* MAX_BLOCK_RANGE makes the one query and returns.
GetRecentTokenCreationsCall ==
  /\ last = NoOp
  /\ \E blockCount \in RecentBlockCounts, currentBlock \in RecentCurrentBlocks :
       last' = [op |-> "getRecentTokenCreations", blockCount |-> blockCount,
                currentBlock |-> currentBlock,
                startBlock |-> currentBlock - blockCount,
                queried |-> IF blockCount > MAX_BLOCK_RANGE THEN <<>>
                            ELSE <<[fromBlock |-> currentBlock - blockCount,
                                    toBlock |-> currentBlock, failed |-> FALSE]>>,
                done |-> ~(blockCount > MAX_BLOCK_RANGE)]
  /\ UNCHANGED <<seenTokens, db, detections, blocks, globalFilter, liveFilters,
                 filtersCreated, handlers, delivered, applied, proc, queue, queueLog>>

\* One turn of the while loop: the chunk is queried (a failing query is
\* caught and logged) and startBlock moves past its end.
ChunkStep ==
  /\ last.op = "getRecentTokenCreations"
  /\ ~last.done
  /\ last.startBlock < last.currentBlock
  /\ \E failed \in BOOLEAN :
       \E endBlock \in {EndBlock(last.startBlock, last.currentBlock)} :
         last' = [last EXCEPT !.queried = Append(@, [fromBlock |-> last.startBlock,
                                                     toBlock |-> endBlock,
                                                     failed |-> failed]),
                              !.startBlock = endBlock + 1]
  /\ UNCHANGED <<seenTokens, db, detections, blocks, globalFilter, liveFilters,
                 filtersCreated, handlers, delivered, applied, proc, queue, queueLog>>

\* The loop test fails: `return allTokens`.
ChunkLoopExit ==
  /\ last.op = "getRecentTokenCreations"
  /\ ~last.done
  /\ ~(last.startBlock < last.currentBlock)
  /\ last' = [last EXCEPT !.done = TRUE]
  /\ UNCHANGED <<seenTokens, db, detections, blocks, globalFilter, liveFilters,
                 filtersCreated, handlers, delivered, applied, proc, queue, queueLog>>

RecentReturn ==
  /\ last.op = "getRecentTokenCreations"
  /\ last.done
  /\ last' = NoOp
  /\ UNCHANGED <<seenTokens, db, detections, blocks, globalFilter, liveFilters,
                 filtersCreated, handlers, delivered, applied, proc, queue, queueLog>>

SpecRecent ==
  Init /\ [][GetRecentTokenCreationsCall \/ ChunkStep \/ ChunkLoopExit \/ RecentReturn]_vars

\* No block lies in two of the queried ranges.
RangesDisjoint(queried) ==
  \A i, j \in DOMAIN queried :
    i < j => \/ queried[i].toBlock < queried[j].fromBlock
             \/ queried[j].toBlock < queried[i].fromBlock

\* Every block from lo through hi lies in a queried range.
RangesCover(queried, lo, hi) ==
  \A b \in lo..hi :
    \E i \in DOMAIN queried : queried[i].fromBlock <= b /\ b <= queried[i].toBlock

(***************************************************************************)
(* C38.  getRecentTokenCreations(blockCount) with blockCount > 2000, once  *)
(* its chunk loop has ended, has queried ranges that are pairwise disjoint *)
(* and together cover every block from currentBlock - blockCount through   *)
(* currentBlock.                                                           *)
(***************************************************************************)
C38_ChunksCoverRange ==
  (last.op = "getRecentTokenCreations" /\ last.done /\ last.blockCount > 2000)
  => /\ RangesDisjoint(last.queried)
     /\ RangesCover(last.queried, last.currentBlock - last.blockCount, last.currentBlock)


====
